---- MODULE Spec2Model ----
(***************************************************************************)
(* Model of the recommendation synthesizer of the on-page SEO service:     *)
(* SEORecommender.generate_recommendations, the agent retry wrapper        *)
(* _run_with_retries, the conversion of agent payloads into                *)
(* recommendations, their deduplication, prioritisation and persistence.   *)
(* Source: onpageseo-service/app/services/recommender.py                   *)
(***************************************************************************)
EXTENDS Integers, Sequences, FiniteSets, TLC

\* ------------------------------------------------------------------------
\* Bounds of the model (not program constants)
\* ------------------------------------------------------------------------
\* how many collaborators (tables / cache) may be out of order in one run
MaxOutages == 1
\* how many agents of one run may succeed after having raised (an agent may
\* always succeed at once, and may always raise on every attempt)
MaxFlakyAgents == 1

\* ------------------------------------------------------------------------
\* Program constants
\* ------------------------------------------------------------------------
\* _run_with_retries(max_attempts=3, backoff=2)
MaxAttempts == 3
Backoff == 2
\* cache expiry in _store_recommendations: 24 * 60 * 60
CacheTtl == 86400

None == "None"

\* iteration order of the agent_tasks dict in _run_ai_agents
AgentOrder == <<"keyword", "competitor", "performance", "semantic", "schema">>
Agents == {AgentOrder[i] : i \in 1..Len(AgentOrder)}

\* the collaborators the synthesizer writes to
Collaborators ==
    {"page_seo_data", "seo_agent_runs", "ai_recommendations", "cache",
     "performance_predictions"}

\* ------------------------------------------------------------------------
\* Sequence helpers
\* ------------------------------------------------------------------------
\* Python slice seq[:n]
Take(s, n) == IF Len(s) <= n THEN s ELSE SubSeq(s, 1, n)

RECURSIVE Pow(_, _)
Pow(b, e) == IF e = 0 THEN 1 ELSE b * Pow(b, e - 1)

RECURSIVE Flatten(_)
Flatten(ss) == IF ss = <<>> THEN <<>> ELSE Head(ss) \o Flatten(Tail(ss))

\* ------------------------------------------------------------------------
\* Data model
\* ------------------------------------------------------------------------
\* AgentResult (shared_models/models.py): confidence_score in hundredths.
\* output_data is a record over the keys the synthesizer reads; a key that
\* is absent from the dict holds "" or <<>> here (dict.get is falsy there).
AgentResult(agent, output, conf) ==
    [agent_type |-> agent, output_data |-> output, confidence_score |-> conf]

EmptyOutput(agent) ==
    CASE agent = "keyword" ->
           [primary_keyword |-> "", keyword_density_suggestions |-> <<>>,
            semantic_keywords |-> <<>>]
      [] agent = "semantic" ->
           [optimized_title |-> "", optimized_meta_description |-> "",
            content_suggestions |-> <<>>]
      [] agent = "schema" ->
           [schema_json |-> "", schema_type |-> "", validation_issues |-> <<>>]
      [] agent = "performance" ->
           [traffic_prediction |-> "", timeline |-> "",
            mobile_desktop_impact |-> "", risk_assessment |-> ""]
      [] agent = "competitor" ->
           [competitors |-> <<>>, content_gaps |-> <<>>,
            technical_opportunities |-> <<>>, quick_wins |-> <<>>,
            long_term_opportunities |-> <<>>]

\* variant: the fallback keeps a default confidence of 1.0
CreateFallbackResultConfident(agent_type) ==
    AgentResult(agent_type, EmptyOutput(agent_type), 100)

\* _create_fallback_result: empty payload, confidence 0.0
CreateFallbackResult(agent_type) ==
    AgentResult(agent_type, EmptyOutput(agent_type), 0)

\* AIRecommendation.  confidence in 1/10000, impact_score in hundredths.
\* suggested and reasoning are <<fixed text, interpolated value>>, the
\* f-strings of the source; a value copied as it is has the fixed text "".
AIRecommendation(type, original, suggested, conf, reasoning, impact, agent, complexity, time) ==
    [type |-> type, original |-> original, suggested |-> suggested,
     confidence_score |-> conf, reasoning |-> reasoning,
     impact_score |-> impact, agent_type |-> agent,
     implementation_complexity |-> complexity, estimated_time |-> time]

Plain(v) == <<"", v>>

\* audit_result.metrics.<field> if audit_result.metrics else ""
MetricsField(audit, field) ==
    IF ~audit.has_metrics THEN "" ELSE audit.metrics[field]

\* ------------------------------------------------------------------------
\* Conversion of agent payloads into recommendations
\* ------------------------------------------------------------------------
\* _create_keyword_recommendations
CreateKeywordRecommendations(res, audit) ==
    LET o == res.output_data
        primary ==
            IF o.primary_keyword # ""
            THEN <<AIRecommendation("primary_keyword_optimization",
                       Plain(MetricsField(audit, "primary_keyword")),
                       Plain(o.primary_keyword), res.confidence_score * 100,
                       Plain("Optimized primary keyword"), 90, "keyword",
                       "medium", 30)>>
            ELSE <<>>
        Density(s) ==
            AIRecommendation("keyword_density_optimization", Plain(""), Plain(s),
                7000, Plain("Keyword density optimization opportunity"), 60,
                "keyword", "low", 15)
        Semantic(k) ==
            AIRecommendation("semantic_keyword_addition", Plain(""), Plain(k), 6500,
                Plain("Semantic keyword to improve content relevance"), 50,
                "keyword", "low", 10)
        density == Take(o.keyword_density_suggestions, 3)
        semantic == Take(o.semantic_keywords, 5)
    IN primary
       \o [i \in 1..Len(density) |-> Density(density[i])]
       \o [i \in 1..Len(semantic) |-> Semantic(semantic[i])]

\* _create_semantic_recommendations
CreateSemanticRecommendations(res, audit) ==
    LET o == res.output_data
        title ==
            IF o.optimized_title # ""
            THEN <<AIRecommendation("title_optimization",
                       Plain(MetricsField(audit, "title")),
                       Plain(o.optimized_title),
                       res.confidence_score * 100,
                       Plain("Semantically optimized title"), 85, "semantic",
                       "low", 5)>>
            ELSE <<>>
        meta ==
            IF o.optimized_meta_description # ""
            THEN <<AIRecommendation("meta_description_optimization",
                       Plain(MetricsField(audit, "meta_description")),
                       Plain(o.optimized_meta_description),
                       res.confidence_score * 90,
                       Plain("Improved meta description"), 70, "semantic",
                       "low", 5)>>
            ELSE <<>>
        Content(s) ==
            AIRecommendation("content_optimization", Plain(""), Plain(s), 7000,
                Plain("Semantic content improvement"), 60, "semantic",
                "medium", 25)
        content == Take(o.content_suggestions, 3)
    IN title \o meta \o [i \in 1..Len(content) |-> Content(content[i])]

\* _create_schema_recommendations (the entries of validation_issues are
\* read with issue.get, see SchemaConversionRaises)
CreateSchemaRecommendations(res, audit) ==
    LET o == res.output_data
        markup ==
            IF o.schema_json # ""
            THEN <<AIRecommendation("schema_markup",
                       IF audit.issues = {} \/ "missing_schema" \notin audit.issues
                       THEN Plain("No structured data")
                       ELSE Plain("Incomplete structured data"),
                       <<"json.dumps", o.schema_json>>,
                       res.confidence_score * 100,
                       <<"Add schema markup for rich results", o.schema_type>>,
                       80, "schema", "high", 45)>>
            ELSE <<>>
        Validation(issue) ==
            AIRecommendation("schema_validation", Plain(""),
                Plain(issue.fix), 8000,
                <<"Schema validation issue", issue.message>>, 40, "schema",
                "medium", 20)
        issues == Take(o.validation_issues, 2)
    IN markup \o [i \in 1..Len(issues) |-> Validation(issues[i])]

\* _create_performance_recommendations
CreatePerformanceRecommendations(res, audit) ==
    LET o == res.output_data
        One(value, type, text, impact, complexity, time) ==
            IF value # ""
            THEN <<AIRecommendation(type, Plain(""), <<text, value>>,
                       res.confidence_score * 100, Plain(type), impact,
                       "performance", complexity, time)>>
            ELSE <<>>
    IN One(o.traffic_prediction, "performance_traffic_prediction",
           "Expected traffic change", 80, "medium", 20)
       \o One(o.timeline, "performance_timeline",
              "Expected ranking improvement timeline", 70, "low", 10)
       \o One(o.mobile_desktop_impact, "performance_device_impact",
              "Device-specific impact", 60, "medium", 15)
       \o One(o.risk_assessment, "performance_risk", "Risk assessment", 70,
              "medium", 15)

\* _create_competitor_recommendations
CreateCompetitorRecommendations(res, audit) ==
    LET o == res.output_data
        c == res.confidence_score
        Name(comp) ==
            IF comp.name # None THEN comp.name
            ELSE IF comp.domain # None THEN comp.domain
            ELSE "Unknown Competitor"
        PerCompetitor(comp) ==
            (IF comp.seo_score < 70
             THEN <<AIRecommendation("competitor_seo_gap",
                        <<Name(comp), ToString(comp.seo_score)>>,
                        Plain("Improve on-page SEO and keyword targeting"),
                        c * 90, <<"has a lower SEO score", Name(comp)>>, 70,
                        "competitor", "medium", 30)>>
             ELSE <<>>)
            \o (IF comp.content_strategy # ""
                THEN <<AIRecommendation("competitor_content_strategy", Plain(""),
                           <<"Align content strategy with competitor",
                             comp.content_strategy>>,
                           c * 85, <<"Learn from content strategy", Name(comp)>>,
                           60, "competitor", "medium", 25)>>
                ELSE <<>>)
            \o [i \in 1..Len(Take(comp.weaknesses, 3)) |->
                   AIRecommendation("competitor_quick_win", Plain(""),
                       <<"Address competitor weakness", comp.weaknesses[i]>>,
                       c * 80,
                       <<"Opportunity identified by analyzing", Name(comp)>>,
                       50, "competitor", "low", 15)]
            \o [i \in 1..Len(Take(comp.opportunities, 3)) |->
                   AIRecommendation("competitor_opportunity", Plain(""),
                       <<"Leverage opportunity", comp.opportunities[i]>>,
                       c * 75,
                       <<"Identified from competitive landscape", Name(comp)>>,
                       55, "competitor", "low", 20)]
        Gap(type, impact, factor, complexity, time, values, cap) ==
            [i \in 1..Len(Take(values, cap)) |->
                AIRecommendation(type, Plain(""), Plain(values[i]), c * factor,
                    Plain(type), impact, "competitor", complexity, time)]
        competitors == Take(o.competitors, 5)
    IN Flatten([i \in 1..Len(competitors) |-> PerCompetitor(competitors[i])])
       \o Gap("gap_content", 65, 90, "medium", 30, o.content_gaps, 5)
       \o Gap("gap_technical", 60, 85, "medium", 25, o.technical_opportunities, 3)
       \o Gap("quick_win", 55, 80, "low", 15, o.quick_wins, 3)
       \o Gap("long_term_opportunity", 50, 75, "medium", 40,
              o.long_term_opportunities, 3)

\* issue.get("fix", "") in _create_schema_recommendations: an entry of
\* validation_issues that is a plain string has no .get (AttributeError)
SchemaConversionRaises(res) ==
    LET issues == Take(res.output_data.validation_issues, 2)
    IN \E i \in 1..Len(issues) : ~issues[i].is_dict

\* AIRecommendation declares original: str; the constructor rejects None
ConstructorRaises(rec) == rec.original = Plain(None)

\* the recommendations of all agents, in the order _convert_to_recommendations
\* extends all_recommendations
AllRecommendations(agent_results, audit) ==
    LET Of(agent, Create(_, _)) ==
            IF agent \in DOMAIN agent_results
            THEN Create(agent_results[agent], audit)
            ELSE <<>>
    IN Of("keyword", CreateKeywordRecommendations)
       \o Of("semantic", CreateSemanticRecommendations)
       \o Of("schema", CreateSchemaRecommendations)
       \o Of("performance", CreatePerformanceRecommendations)
       \o Of("competitor", CreateCompetitorRecommendations)

\* TRUE when _convert_to_recommendations raises instead of returning
ConversionRaises(agent_results, audit) ==
    \/ /\ "schema" \in DOMAIN agent_results
       /\ SchemaConversionRaises(agent_results["schema"])
    \/ LET all == AllRecommendations(agent_results, audit)
       IN \E i \in 1..Len(all) : ConstructorRaises(all[i])

RECURSIVE Dedupe(_, _)
\* variant: of the entries sharing a (type, suggested) pair the last is kept
DedupeKeepLast(recs, seen) ==
    LET Key(r) == <<r.type, r.suggested>>
        keep == {i \in 1..Len(recs) :
                    \A j \in (i + 1)..Len(recs) : Key(recs[j]) # Key(recs[i])}
    IN [n \in 1..Cardinality(keep) |->
           recs[CHOOSE i \in keep : Cardinality({j \in keep : j <= i}) = n]]

\* the deduplication loop of _convert_to_recommendations
Dedupe(recs, seen) ==
    IF recs = <<>> THEN <<>>
    ELSE LET rec == Head(recs)
             key == <<rec.type, rec.suggested>>
         IN IF key \notin seen
            THEN <<rec>> \o Dedupe(Tail(recs), seen \cup {key})
            ELSE Dedupe(Tail(recs), seen)

\* _convert_to_recommendations (when it does not raise)
ConvertToRecommendations(agent_results, audit) ==
    Dedupe(AllRecommendations(agent_results, audit), {})

\* ------------------------------------------------------------------------
\* Prioritisation
\* ------------------------------------------------------------------------
\* _complexity_score
ComplexityScore(complexity) ==
    CASE complexity = "low" -> 1
      [] complexity = "medium" -> 2
      [] complexity = "high" -> 3
      [] OTHER -> 2

\* rec.impact_score * 100 in IEEE-754 binary64, for the impact scores the
\* synthesizer assigns (0.4 0.5 0.55 0.6 0.65 0.7 0.8 0.85 0.9): the pair
\* <<w, e>> stands for the double w + e * 2^-47.  All products are exact
\* except 0.55 * 100 = 55.00000000000001 = 55 + 2^-47.
FloatTimes100(impact) == <<impact, IF impact = 55 THEN 1 ELSE 0>>

\* score = impact_score * 100 - complexity * 10; subtracting a multiple of
\* ten from these doubles is exact
PriorityScore(rec) ==
    LET p == FloatTimes100(rec.impact_score)
    IN <<p[1] - ComplexityScore(rec.implementation_complexity) * 10, p[2]>>

\* a > b on doubles w + e * 2^-47
FloatGreater(a, b) == a[1] > b[1] \/ (a[1] = b[1] /\ a[2] > b[2])

\* list.sort(key=score, reverse=True): stable, entries with equal keys keep
\* their order.  InsertSorted puts x behind every entry whose key is >= x's.
RECURSIVE InsertSorted(_, _)
InsertSorted(sorted, x) ==
    IF sorted = <<>> THEN <<x>>
    ELSE IF FloatGreater(PriorityScore(x), PriorityScore(Head(sorted)))
         THEN <<x>> \o sorted
         ELSE <<Head(sorted)>> \o InsertSorted(Tail(sorted), x)

RECURSIVE SortByScore(_, _)
SortByScore(recs, sorted) ==
    IF recs = <<>> THEN sorted
    ELSE SortByScore(Tail(recs), InsertSorted(sorted, Head(recs)))

\* _prioritize_recommendations
PrioritizeRecommendations(recommendations) ==
    IF recommendations = <<>> THEN <<>>
    ELSE SortByScore(recommendations, <<>>)

\* ------------------------------------------------------------------------
\* Schema agent: the payload it derives from the completion reply
\* ------------------------------------------------------------------------
\* an entry of validation_issues as SchemaAgent appends it: a plain string
StringIssue(text) == [is_dict |-> FALSE, text |-> text, fix |-> "", message |-> ""]

\* SchemaAgent._parse_and_validate_response.  response: is_dict, and for a
\* dict its "@type" and "@context" ("" when the key is missing) and the
\* JSON document itself (json, "" for the empty dict).
ParseAndValidateResponse(response) ==
    LET schema_data == IF response.is_dict THEN response
                       ELSE [is_dict |-> TRUE, json |-> "", type |-> "",
                             context |-> ""]
        validation_issues ==
            IF schema_data.json = ""
            THEN <<StringIssue("Empty schema data")>>
            ELSE (IF schema_data.type = ""
                  THEN <<StringIssue("Missing @type property")>> ELSE <<>>)
                 \o (IF schema_data.context = ""
                     THEN <<StringIssue("Missing @context property")>>
                     ELSE IF schema_data.context # "https://schema.org"
                          THEN <<StringIssue("Invalid @context")>>
                          ELSE <<>>)
    IN [schema_json |-> schema_data.json,
        schema_type |-> IF schema_data.type = "" THEN "Unknown"
                        ELSE schema_data.type,
        validation_issues |-> validation_issues]

\* SchemaAgent.generate_schema: confidence defaults to 0.85; a reply that is
\* not a dict (a JSON list) makes response.get raise inside the try, and the
\* handler returns an empty payload with confidence 0.0
GenerateSchema(response) ==
    IF response.is_dict
    THEN AgentResult("schema", ParseAndValidateResponse(response), 85)
    ELSE AgentResult("schema", EmptyOutput("schema"), 0)

\* ------------------------------------------------------------------------
\* Inputs: what the agents may return, and the audits handed in
\* ------------------------------------------------------------------------
SchemaResponses ==
    {[is_dict |-> TRUE, json |-> "article-ld", type |-> "Article",
      context |-> "https://schema.org"],
     [is_dict |-> TRUE, json |-> "bare-ld", type |-> "Article",
      context |-> ""]}

Competitor(name, domain, seo_score, strategy, weaknesses, opportunities) ==
    [name |-> name, domain |-> domain, seo_score |-> seo_score,
     content_strategy |-> strategy, weaknesses |-> weaknesses,
     opportunities |-> opportunities]

Replies(agent) ==
    CASE agent = "keyword" ->
           {AgentResult("keyword",
               [primary_keyword |-> "seo audit",
                keyword_density_suggestions |-> <<"use keyword in h1">>,
                semantic_keywords |-> <<"site audit", "site audit">>], 90)}
      [] agent = "competitor" ->
           {AgentResult("competitor",
               [competitors |->
                   <<Competitor("acme", None, 60, "", <<"slow pages">>, <<>>),
                     Competitor(None, "rival.com", 65, "guides", <<>>,
                                <<"video">>)>>,
                content_gaps |-> <<"pricing page">>,
                technical_opportunities |-> <<>>,
                quick_wins |-> <<"add faq">>,
                long_term_opportunities |-> <<>>], 80),
            AgentResult("competitor", EmptyOutput("competitor"), 0)}
      [] agent = "performance" ->
           {AgentResult("performance",
               [traffic_prediction |-> "12", timeline |-> "3 months",
                mobile_desktop_impact |-> "", risk_assessment |-> ""], 90)}
      [] agent = "semantic" ->
           {AgentResult("semantic",
               [optimized_title |-> "Better title",
                optimized_meta_description |-> "",
                content_suggestions |-> <<"add examples">>], 85)}
      [] agent = "schema" -> {GenerateSchema(r) : r \in SchemaResponses}

\* audit_result: page_data present or not; metrics absent, or present with
\* the fields the analyzer leaves unset (ContentMetrics.title etc. default to
\* None); the types of its issues
AuditInputs ==
    {[has_page_data |-> TRUE, has_metrics |-> FALSE,
      metrics |-> [primary_keyword |-> None, title |-> None,
                   meta_description |-> None],
      issues |-> {}],
     [has_page_data |-> TRUE, has_metrics |-> TRUE,
      metrics |-> [primary_keyword |-> None, title |-> None,
                   meta_description |-> None],
      issues |-> {"missing_schema"}],
     [has_page_data |-> FALSE, has_metrics |-> FALSE,
      metrics |-> [primary_keyword |-> None, title |-> None,
                   meta_description |-> None],
      issues |-> {}]}

\* ------------------------------------------------------------------------
\* State
\* ------------------------------------------------------------------------
VARIABLES
    pc,                 \* position in generate_recommendations
    task_id,            \* argument task_id: None or an id
    audit,              \* argument audit_result
    outages,            \* collaborators whose writes raise in this run
    url_id_str,         \* local url_id_str (None after a failed page upsert)
    page_rows,          \* table page_seo_data: ids upserted
    status_writes,      \* statuses written to seo_tasks, in order
    agent_idx,          \* loop index of _run_ai_agents into AgentOrder
    rpc,                \* position in _run_with_retries
    attempt,            \* local attempt of _run_with_retries
    result,             \* local result of _run_with_retries: <<>> is None
    in_flight,          \* agents whose task_fn() is awaited
    outcomes,           \* per agent: "ok"/"raise" of each task_fn() call
    replies,            \* per agent and call: <<the AgentResult the agent
                        \* produced>>, <<>> when the agent itself raised
    run_log,            \* table seo_agent_runs: rows appended, in order
    sleeps,             \* arguments of asyncio.sleep, as <<agent, seconds>>
    agent_results_list, \* results of _run_ai_agents
    recommendations,    \* value of _convert_to_recommendations
    prioritized,        \* value of _prioritize_recommendations
    store,              \* table ai_recommendations: rows inserted
    cache,              \* cache entries written with setex
    returned,           \* <<list returned by generate_recommendations>>
    \* --- endpoints /seo/analyze, /seo/analyze/batch and SEOAnalyzer ---
    ep,                 \* position in the endpoint
    request,            \* the request being served
    redis,              \* state of the RedisClient singleton
    site,               \* what the web answers for the URL being fetched
    current_url,        \* local current_url of _fetch_url_content
    redirect_count,     \* local redirect_count of _fetch_url_content
    redirect_chain,     \* local redirect_chain: <<status, url>> pairs
    requests,           \* client.get calls made by the current fetch
    fetched,            \* how the last _fetch_url_content call ended
    task_writes,        \* status writes to the task tables, in order
    batch_idx,          \* loop index of analyze_batch
    results,            \* local results of analyze_batch
    response,           \* <<the HTTP response of the endpoint>>
    \* --- SEOScorer and the score aggregation of SEOAnalyzer ---
    issues,             \* the issue list handed to the aggregation
    scores,             \* <<overall, category scores, passed checks>>
    \* --- HTMLParser.extract_all and SEOAnalyzer._validate_page ---
    page,               \* arguments html_content and base_url
    hash_seed,          \* string hash seed of the running interpreter
    soup,               \* the parsed document the extraction steps share
    xp,                 \* position in the extraction and validation
    extracted,          \* the fields extracted so far
    page_issues,        \* <<validator issues, heuristic issues, passed>>
    first_run,          \* <<fields, issues>> of an earlier run, if any
    \* --- KeywordAgent.run ---
    agent_input,        \* arguments keywords and content
    subtask,            \* position of each of the three gathered coroutines
    completions,        \* the coroutines with a completion request in flight
    gathered,           \* what each coroutine returned
    agent_output        \* <<the AgentResult run returns>>

recommender_vars ==
    <<pc, task_id, audit, outages, url_id_str, page_rows, status_writes,
      agent_idx, rpc, attempt, result, in_flight, outcomes, replies,
      run_log, sleeps, agent_results_list, recommendations, prioritized,
      store, cache, returned>>

fetch_vars == <<site, current_url, redirect_count, redirect_chain, requests,
                fetched>>

endpoint_vars == <<ep, request, redis, fetch_vars, task_writes, batch_idx,
                   results, response>>

scorer_vars == <<issues, scores>>

page_vars == <<page, hash_seed, soup, xp, extracted, page_issues, first_run>>

agent_vars == <<agent_input, subtask, completions, gathered, agent_output>>

vars == <<recommender_vars, endpoint_vars, scorer_vars, page_vars,
          agent_vars>>

retry_vars == <<rpc, attempt, result, in_flight, outcomes, replies,
                run_log, sleeps>>
\* what generate_recommendations never writes: its arguments, the state of
\* the collaborators' health, and the state of the other components
input_vars == <<task_id, audit, outages, endpoint_vars, scorer_vars,
                page_vars, agent_vars>>
output_vars == <<recommendations, prioritized, store, cache, returned>>

CurrentAgent == AgentOrder[agent_idx]

\* no fetch is under way
FetchIdle ==
    /\ site = None
    /\ current_url = None
    /\ redirect_count = 0
    /\ redirect_chain = <<>>
    /\ requests = 0
    /\ fetched = <<>>

\* no request is being served by the endpoints
EndpointIdle ==
    /\ ep = "idle"
    /\ request = None
    /\ redis = "connected"
    /\ FetchIdle
    /\ task_writes = <<>>
    /\ batch_idx = 0
    /\ results = <<>>
    /\ response = <<>>

\* no score is being computed
ScorerIdle ==
    /\ issues = <<>>
    /\ scores = <<>>

\* no page is being extracted
PageIdle ==
    /\ page = None
    /\ hash_seed = 0
    /\ soup = None
    /\ xp = "idle"
    /\ extracted = None
    /\ page_issues = <<>>
    /\ first_run = <<>>

\* the keyword agent is not running
KeywordAgentIdle ==
    /\ agent_input = None
    /\ subtask = <<>>
    /\ completions = {}
    /\ gathered = <<>>
    /\ agent_output = <<>>

Init ==
    /\ EndpointIdle
    /\ ScorerIdle
    /\ PageIdle
    /\ KeywordAgentIdle
    /\ pc = "enter"
    /\ task_id \in {None, "task-1"}
    /\ audit \in AuditInputs
    /\ outages \in {s \in SUBSET Collaborators : Cardinality(s) <= MaxOutages}
    /\ url_id_str = None
    /\ page_rows = {}
    /\ status_writes = <<>>
    /\ agent_idx = 1
    /\ rpc = "idle"
    /\ attempt = 0
    /\ result = <<>>
    /\ in_flight = {}
    /\ outcomes = [a \in Agents |-> <<>>]
    /\ replies = [a \in Agents |-> <<>>]
    /\ run_log = <<>>
    /\ sleeps = <<>>
    /\ agent_results_list = <<>>
    /\ recommendations = <<>>
    /\ prioritized = <<>>
    /\ store = <<>>
    /\ cache = {}
    /\ returned = <<>>

\* _update_task_status, called under "if task_id:"
UpdateTaskStatus(writes, status) ==
    IF task_id # None THEN Append(writes, status) ELSE writes

\* ------------------------------------------------------------------------
\* generate_recommendations: entry and page row
\* ------------------------------------------------------------------------
\* entry with page data: status processing, url_id_str computed
Enter ==
    /\ pc = "enter"
    /\ audit.has_page_data
    /\ status_writes' = UpdateTaskStatus(status_writes, "processing")
    /\ url_id_str' = "page-1"
    /\ pc' = "persist"
    /\ UNCHANGED <<input_vars, page_rows, agent_idx, retry_vars,
                   agent_results_list, output_vars>>

\* entry without page data: status processing, then failed, return []
EnterNoPageData ==
    /\ pc = "enter"
    /\ ~audit.has_page_data
    /\ status_writes' =
           UpdateTaskStatus(UpdateTaskStatus(status_writes, "processing"),
                            "failed")
    /\ returned' = <<(<<>>)>>
    /\ pc' = "done"
    /\ UNCHANGED <<input_vars, url_id_str, page_rows, agent_idx, retry_vars,
                   agent_results_list, recommendations, prioritized, store,
                   cache>>

\* the upsert of the page row; when it raises url_id_str becomes None
PersistPage ==
    /\ pc = "persist"
    /\ IF "page_seo_data" \in outages
       THEN /\ url_id_str' = None
            /\ UNCHANGED page_rows
       ELSE /\ page_rows' = page_rows \cup {url_id_str}
            /\ UNCHANGED url_id_str
    /\ pc' = "agents"
    /\ UNCHANGED <<input_vars, status_writes, agent_idx, retry_vars,
                   agent_results_list, output_vars>>

\* ------------------------------------------------------------------------
\* _run_ai_agents and _run_with_retries
\* ------------------------------------------------------------------------
\* variant: every row is written with attempt number 1
LogRunFirstAttempt(log, status) ==
    IF url_id_str # None /\ "seo_agent_runs" \notin outages
    THEN Append(log, [task_id |-> task_id, agent_type |-> CurrentAgent,
                      attempt |-> 1, status |-> status,
                      url_id |-> url_id_str])
    ELSE log

\* the insert into seo_agent_runs, made only "if url_id:", its failure caught
LogRun(log, status) ==
    IF url_id_str # None /\ "seo_agent_runs" \notin outages
    THEN Append(log, [task_id |-> task_id, agent_type |-> CurrentAgent,
                      attempt |-> attempt, status |-> status,
                      url_id |-> url_id_str])
    ELSE log

\* _run_performance_agent writes performance_predictions after the agent
\* has answered, outside any try
TaskFnPersistFails ==
    CurrentAgent = "performance" /\ "performance_predictions" \in outages

\* the loop of _run_ai_agents calls _run_with_retries for the next agent
StartAgent ==
    /\ pc = "agents"
    /\ rpc = "idle"
    /\ agent_idx <= Len(AgentOrder)
    /\ attempt' = 0
    /\ result' = <<>>
    /\ rpc' = "loop"
    /\ UNCHANGED <<pc, input_vars, url_id_str, page_rows, status_writes,
                   agent_idx, in_flight, outcomes, replies, run_log,
                   sleeps, agent_results_list, output_vars>>

\* while attempt < max_attempts: attempt += 1; await task_fn() begins
BeginAttempt ==
    /\ pc = "agents"
    /\ rpc = "loop"
    /\ attempt < MaxAttempts
    /\ attempt' = attempt + 1
    /\ in_flight' = in_flight \cup {CurrentAgent}
    /\ rpc' = "inflight"
    /\ UNCHANGED <<pc, input_vars, url_id_str, page_rows, status_writes,
                   agent_idx, result, outcomes, replies, run_log, sleeps,
                   agent_results_list, output_vars>>

\* the agents that raised and then returned a result
FlakyAgents ==
    {a \in Agents : Len(outcomes[a]) > 1 /\ outcomes[a][Len(outcomes[a])] = "ok"}

\* variant: the insert of the success row is not wrapped in its own try, so
\* a failing insert lands in the handler of the attempt and the loop goes on
TaskFnReturnsLogUnguarded ==
    /\ pc = "agents"
    /\ rpc = "inflight"
    /\ ~TaskFnPersistFails
    /\ attempt = 1 \/ Cardinality(FlakyAgents) < MaxFlakyAgents
    /\ \E reply \in Replies(CurrentAgent) :
          /\ result' = <<reply>>
          /\ replies' = [replies EXCEPT ![CurrentAgent] = Append(@, <<reply>>)]
    /\ in_flight' = in_flight \ {CurrentAgent}
    /\ outcomes' = [outcomes EXCEPT ![CurrentAgent] = Append(@, "ok")]
    /\ run_log' = LogRun(run_log, "success")
    /\ rpc' = IF url_id_str # None /\ "seo_agent_runs" \in outages
              THEN "loop" ELSE "ret"
    /\ UNCHANGED <<pc, input_vars, url_id_str, page_rows, status_writes,
                   agent_idx, attempt, sleeps, agent_results_list,
                   output_vars>>

\* task_fn() returns: result set, success row logged, break
TaskFnReturns ==
    /\ pc = "agents"
    /\ rpc = "inflight"
    /\ ~TaskFnPersistFails
    /\ attempt = 1 \/ Cardinality(FlakyAgents) < MaxFlakyAgents
    /\ \E reply \in Replies(CurrentAgent) :
          /\ result' = <<reply>>
          /\ replies' = [replies EXCEPT ![CurrentAgent] = Append(@, <<reply>>)]
    /\ in_flight' = in_flight \ {CurrentAgent}
    /\ outcomes' = [outcomes EXCEPT ![CurrentAgent] = Append(@, "ok")]
    /\ run_log' = LogRun(run_log, "success")
    /\ rpc' = "ret"
    /\ UNCHANGED <<pc, input_vars, url_id_str, page_rows, status_writes,
                   agent_idx, attempt, sleeps, agent_results_list,
                   output_vars>>

\* variant: the wrapper sleeps after every failed attempt, the last included
TaskFnRaisesAlwaysSleeps ==
    /\ pc = "agents"
    /\ rpc = "inflight"
    /\ IF TaskFnPersistFails
       THEN \E reply \in Replies(CurrentAgent) :
               replies' = [replies EXCEPT ![CurrentAgent] = Append(@, <<reply>>)]
       ELSE replies' = [replies EXCEPT ![CurrentAgent] = Append(@, <<>>)]
    /\ in_flight' = in_flight \ {CurrentAgent}
    /\ outcomes' = [outcomes EXCEPT ![CurrentAgent] = Append(@, "raise")]
    /\ run_log' = LogRun(run_log, "failed")
    /\ sleeps' = Append(sleeps, <<CurrentAgent, Pow(Backoff, attempt)>>)
    /\ rpc' = "loop"
    /\ UNCHANGED <<pc, input_vars, url_id_str, page_rows, status_writes,
                   agent_idx, attempt, result, agent_results_list,
                   output_vars>>

\* task_fn() raises: failed row logged, sleep backoff**attempt before the
\* next attempt
TaskFnRaises ==
    /\ pc = "agents"
    /\ rpc = "inflight"
    /\ IF TaskFnPersistFails
       THEN \E reply \in Replies(CurrentAgent) :
               replies' = [replies EXCEPT ![CurrentAgent] = Append(@, <<reply>>)]
       ELSE replies' = [replies EXCEPT ![CurrentAgent] = Append(@, <<>>)]
    /\ in_flight' = in_flight \ {CurrentAgent}
    /\ outcomes' = [outcomes EXCEPT ![CurrentAgent] = Append(@, "raise")]
    /\ run_log' = LogRun(run_log, "failed")
    /\ sleeps' = IF attempt < MaxAttempts
                 THEN Append(sleeps, <<CurrentAgent, Pow(Backoff, attempt)>>)
                 ELSE sleeps
    /\ rpc' = "loop"
    /\ UNCHANGED <<pc, input_vars, url_id_str, page_rows, status_writes,
                   agent_idx, attempt, result, agent_results_list,
                   output_vars>>

\* variant: a fallback ends the loop over the agents
AppendResultStopOnFallback(value) ==
    /\ agent_results_list' = Append(agent_results_list, value)
    /\ agent_idx' = agent_idx + 1
    /\ rpc' = "idle"
    /\ pc' = IF agent_idx = Len(AgentOrder) \/ value.confidence_score = 0
             THEN "convert" ELSE "agents"
    /\ UNCHANGED <<input_vars, url_id_str, page_rows, status_writes, attempt,
                   result, in_flight, outcomes, replies, run_log, sleeps,
                   output_vars>>

\* what _run_ai_agents does with the value of _run_with_retries
AppendResult(value) ==
    /\ agent_results_list' = Append(agent_results_list, value)
    /\ agent_idx' = agent_idx + 1
    /\ rpc' = "idle"
    /\ pc' = IF agent_idx = Len(AgentOrder) THEN "convert" ELSE "agents"
    /\ UNCHANGED <<input_vars, url_id_str, page_rows, status_writes, attempt,
                   result, in_flight, outcomes, replies, run_log, sleeps,
                   output_vars>>

\* _run_with_retries returns the result of the successful attempt
ReturnResult ==
    /\ pc = "agents"
    /\ rpc = "ret"
    /\ result # <<>>
    /\ AppendResult(result[1])

\* the attempts are used up: "if not result" gives the fallback
ReturnFallback ==
    /\ pc = "agents"
    /\ rpc = "loop"
    /\ attempt >= MaxAttempts
    /\ result = <<>>
    /\ AppendResult(CreateFallbackResult(CurrentAgent))

\* ------------------------------------------------------------------------
\* generate_recommendations: conversion, storing, completion
\* ------------------------------------------------------------------------
\* agent_results = {res.agent_type: res for res in agent_results_list}
AgentResultsDict(list) ==
    [a \in {list[i].agent_type : i \in 1..Len(list)} |->
        list[CHOOSE i \in 1..Len(list) :
                /\ list[i].agent_type = a
                /\ \A j \in (i + 1)..Len(list) : list[j].agent_type # a]]

\* conversion and prioritisation succeed
Convert ==
    /\ pc = "convert"
    /\ ~ConversionRaises(AgentResultsDict(agent_results_list), audit)
    /\ recommendations' =
           ConvertToRecommendations(AgentResultsDict(agent_results_list), audit)
    /\ prioritized' = PrioritizeRecommendations(recommendations')
    /\ pc' = "store"
    /\ UNCHANGED <<input_vars, url_id_str, page_rows, status_writes,
                   agent_idx, retry_vars, agent_results_list, store, cache,
                   returned>>

\* the conversion raises: the outer handler writes failed and returns []
ConvertRaises ==
    /\ pc = "convert"
    /\ ConversionRaises(AgentResultsDict(agent_results_list), audit)
    /\ status_writes' = UpdateTaskStatus(status_writes, "failed")
    /\ returned' = <<(<<>>)>>
    /\ pc' = "done"
    /\ UNCHANGED <<input_vars, url_id_str, page_rows, agent_idx, retry_vars,
                   agent_results_list, recommendations, prioritized, store,
                   cache>>

\* rec.dict() tagged with url_id and, when given, task_id
StoreRow(rec) == [rec |-> rec, url_id |-> url_id_str, task_id |-> task_id]

\* cache_key = f"recommendations:{task_id or url_id}"
CacheKey == <<"recommendations", IF task_id # None THEN task_id ELSE url_id_str>>

\* variant: only the top recommendation is cached
CacheEntryTruncated(list) ==
    [key |-> CacheKey, ttl |-> CacheTtl, value |-> <<"json.dumps", Take(list, 1)>>]

\* setex(cache_key, 24 * 60 * 60, json.dumps([rec.dict() ...]))
CacheEntry(list) ==
    [key |-> CacheKey, ttl |-> CacheTtl, value |-> <<"json.dumps", list>>]

\* redis setex overwrites the entry of the key
Setex(entries, entry) == {e \in entries : e.key # entry.key} \cup {entry}

\* _store_recommendations (only "if url_id_str:"): the insert is skipped for
\* an empty list; an insert that raises also skips the cache write
StoreRecommendations ==
    IF url_id_str = None
    THEN UNCHANGED <<store, cache>>
    ELSE IF prioritized # <<>> /\ "ai_recommendations" \in outages
         THEN UNCHANGED <<store, cache>>
         ELSE /\ store' = store \o [i \in 1..Len(prioritized) |->
                                        StoreRow(prioritized[i])]
              /\ cache' = IF "cache" \in outages THEN cache
                          ELSE Setex(cache, CacheEntry(prioritized))

\* variant: a run that produced no recommendation is reported as failed
StoreAndCompleteEmptyFails ==
    /\ pc = "store"
    /\ StoreRecommendations
    /\ status_writes' =
           UpdateTaskStatus(status_writes,
                            IF prioritized = <<>> THEN "failed" ELSE "completed")
    /\ returned' = <<prioritized>>
    /\ pc' = "done"
    /\ UNCHANGED <<input_vars, url_id_str, page_rows, agent_idx, retry_vars,
                   agent_results_list, recommendations, prioritized>>

\* store, write status completed, return the prioritized list
StoreAndComplete ==
    /\ pc = "store"
    /\ StoreRecommendations
    /\ status_writes' = UpdateTaskStatus(status_writes, "completed")
    /\ returned' = <<prioritized>>
    /\ pc' = "done"
    /\ UNCHANGED <<input_vars, url_id_str, page_rows, agent_idx, retry_vars,
                   agent_results_list, recommendations, prioritized>>

Next ==
    \/ Enter
    \/ EnterNoPageData
    \/ PersistPage
    \/ StartAgent
    \/ BeginAttempt
    \/ TaskFnReturns
    \/ TaskFnRaises
    \/ ReturnResult
    \/ ReturnFallback
    \/ Convert
    \/ ConvertRaises
    \/ StoreAndComplete

Spec == Init /\ [][Next]_vars

\* ------------------------------------------------------------------------
\* SEOAnalyzer._fetch_url_content
\* ------------------------------------------------------------------------
\* bound of the model: the longest chain of redirects a site answers with
MaxHops == 12

\* _fetch_url_content(url, max_redirects=10)
MaxRedirects == 10

RedirectStatuses == {301, 302, 303, 307, 308}

\* URLs are numbered: 0 is the URL requested, i + 1 the target of the
\* redirect answered for i
NoUrl == -1

HttpResponse(kind, status, body, location) ==
    [kind |-> kind, status |-> status, body |-> body, location |-> location]

\* how a site may answer at the end of its chain of hops redirects: a 2xx
\* page (possibly with an empty body), an error status, a network error, a
\* redirect without Location, a redirect to a URL of the chain
Endings(hops) ==
    {HttpResponse("response", 200, body, NoUrl) : body \in {"<html>", ""}}
    \cup {HttpResponse("response", st, "", NoUrl) :
             st \in {401, 403, 429, 404, 500}}
    \cup {HttpResponse("network", 0, "", NoUrl)}
    \cup {HttpResponse("response", 301, "", NoUrl)}
    \cup {HttpResponse("response", 302, "", back) : back \in 0..hops}

Sites ==
    UNION {{[hops |-> k, ending |-> e] : e \in Endings(k)} : k \in 0..MaxHops}

NoSite == [hops |-> -1, ending |-> HttpResponse("none", 0, "", NoUrl)]

\* what client.get(url) gives on the site
Get(s, url) ==
    IF url < s.hops THEN HttpResponse("response", 301, "", url + 1)
    ELSE s.ending

\* how _fetch_url_content ends: the text returned or the exception raised
FetchResult(kind, status, body, message) ==
    [kind |-> kind, status |-> status, body |-> body, message |-> message]

\* variant: the loop goes on for one hop more
WithinHopBoundLoose(count) == count <= MaxRedirects + 1

\* variant: the loop stops one hop early
WithinHopBoundStrict(count) == count < MaxRedirects

\* while redirect_count <= max_redirects
WithinHopBound(count) == count <= MaxRedirects

\* variant: the chain is never searched
RevisitsChainNever(chain, url) == FALSE

\* any(url == current_url for _, url in redirect_chain[:-1])
RevisitsChain(chain, url) ==
    \E i \in 1..(Len(chain) - 1) : chain[i][2] = url

\* the locals of _fetch_url_content at its entry
StartFetch(s) ==
    /\ site' = s
    /\ current_url' = 0
    /\ redirect_count' = 0
    /\ redirect_chain' = <<>>
    /\ requests' = 0
    /\ fetched' = <<>>

Fetching == ep \in {"fetch", "refetch"} /\ fetched = <<>>

\* one pass of the loop: the request raises a network error
FetchNetworkError ==
    /\ Fetching
    /\ WithinHopBound(redirect_count)
    /\ Get(site, current_url).kind = "network"
    /\ requests' = requests + 1
    /\ fetched' = <<FetchResult("RequestError", 0, "", "network error")>>
    /\ UNCHANGED <<recommender_vars, scorer_vars, page_vars, agent_vars,
                   ep, request, redis, site,
                   current_url, redirect_count, redirect_chain, task_writes,
                   batch_idx, results, response>>

\* one pass of the loop: the response is a redirect
FetchRedirect ==
    /\ Fetching
    /\ WithinHopBound(redirect_count)
    /\ LET r == Get(site, current_url)
           chain == Append(redirect_chain, <<r.status, current_url>>)
       IN /\ r.kind = "response"
          /\ r.status \in RedirectStatuses
          /\ requests' = requests + 1
          /\ redirect_chain' = chain
          /\ IF r.location = NoUrl
             THEN /\ fetched' = <<FetchResult("HTTPError", 0, "",
                                      "Redirect without Location header")>>
                  /\ UNCHANGED <<current_url, redirect_count>>
             ELSE /\ current_url' = r.location
                  /\ redirect_count' = redirect_count + 1
                  /\ fetched' =
                        IF RevisitsChain(chain, r.location)
                        THEN <<FetchResult("HTTPError", 0, "",
                                   "Redirect loop detected")>>
                        ELSE <<>>
    /\ UNCHANGED <<recommender_vars, scorer_vars, page_vars, agent_vars,
                   ep, request, redis, site,
                   task_writes, batch_idx, results, response>>

\* one pass of the loop: the response is final; raise_for_status, then
\* return response.text
FetchFinal ==
    /\ Fetching
    /\ WithinHopBound(redirect_count)
    /\ LET r == Get(site, current_url)
       IN /\ r.kind = "response"
          /\ r.status \notin RedirectStatuses
          /\ requests' = requests + 1
          /\ redirect_chain' = Append(redirect_chain, <<r.status, current_url>>)
          /\ fetched' =
                IF r.status \in 200..299
                THEN <<FetchResult("text", r.status, r.body, "")>>
                ELSE <<FetchResult("HTTPStatusError", r.status, "", "")>>
    /\ UNCHANGED <<recommender_vars, scorer_vars, page_vars, agent_vars,
                   ep, request, redis, site,
                   current_url, redirect_count, task_writes, batch_idx,
                   results, response>>

\* the loop ends without a final response
FetchTooManyRedirects ==
    /\ Fetching
    /\ ~WithinHopBound(redirect_count)
    /\ fetched' = <<FetchResult("HTTPError", 0, "", "Too many redirects")>>
    /\ UNCHANGED <<recommender_vars, scorer_vars, page_vars, agent_vars,
                   ep, request, redis, site,
                   current_url, redirect_count, redirect_chain, requests,
                   task_writes, batch_idx, results, response>>

\* ------------------------------------------------------------------------
\* Endpoints /seo/analyze and /seo/analyze/batch, SEOAnalyzer.analyze
\* ------------------------------------------------------------------------
\* bound of the model: the longest batch that is processed
MaxBatch == 2

\* analyze_batch: "if len(urls) > 10"
MaxBatchUrls == 10

\* the synthesizer is not running
RecommenderIdle ==
    /\ pc = "idle"
    /\ task_id = None
    /\ audit = [has_page_data |-> FALSE, has_metrics |-> FALSE,
                metrics |-> [primary_keyword |-> None, title |-> None,
                             meta_description |-> None],
                issues |-> {}]
    /\ outages = {}
    /\ url_id_str = None
    /\ page_rows = {}
    /\ status_writes = <<>>
    /\ agent_idx = 1
    /\ rpc = "idle"
    /\ attempt = 0
    /\ result = <<>>
    /\ in_flight = {}
    /\ outcomes = [a \in Agents |-> <<>>]
    /\ replies = [a \in Agents |-> <<>>]
    /\ run_log = <<>>
    /\ sleeps = <<>>
    /\ agent_results_list = <<>>
    /\ recommendations = <<>>
    /\ prioritized = <<>>
    /\ store = <<>>
    /\ cache = {}
    /\ returned = <<>>

\* a request to /seo/analyze (url and html optional, task_id optional) or
\* to /seo/analyze/batch (urls; BatchAuditRequest has no task_ids)
Request(kind, has_url, has_html, task, force_refresh, urls) ==
    [kind |-> kind, has_url |-> has_url, has_html |-> has_html,
     task_id |-> task, force_refresh |-> force_refresh, urls |-> urls]

Requests ==
    {Request("single", u, h, t, f, 1) :
        u \in BOOLEAN, h \in BOOLEAN, t \in {None, "task-1"}, f \in BOOLEAN}
    \cup {Request("batch", TRUE, FALSE, None, FALSE, n) :
             n \in (0..MaxBatch) \cup {MaxBatchUrls + 1}}

NoRequest == Request("none", FALSE, FALSE, None, FALSE, 0)

\* RedisClient: connected and answering; connected with every command
\* raising; or not connected, connect() raising on each call
RedisStates == {"connected", "failing", "absent"}

\* redis_client.get returns: connect() is awaited outside the try, so its
\* exception leaves get; an exception of the command itself is logged and
\* None returned
RedisGetReturns == redis # "absent"

\* the lookup "if not request.force_refresh: cached = await
\* redis_client.get(cache_key)" of analyze_page returns
CacheLookupReturns == request.force_refresh \/ RedisGetReturns

EndpointInit ==
    /\ RecommenderIdle
    /\ ScorerIdle
    /\ PageIdle
    /\ KeywordAgentIdle
    /\ ep = "enter"
    /\ request \in Requests
    /\ redis \in RedisStates
    /\ site = NoSite
    /\ current_url = NoUrl
    /\ redirect_count = 0
    /\ redirect_chain = <<>>
    /\ requests = 0
    /\ fetched = <<>>
    /\ task_writes = <<>>
    /\ batch_idx = 0
    /\ results = <<>>
    /\ response = <<>>

\* the HTTP response of an endpoint
Http(code, detail, list) == [code |-> code, detail |-> detail, results |-> list]

\* an exception that leaves the endpoint function: the global exception
\* handler of the application answers 500
Unhandled == Http(500, "Internal server error", <<>>)

\* an exception leaves the endpoint function.  /seo/analyze does not catch
\* what analyzer.analyze raises.
\* analyze_batch catches it and builds SEOAnalysisResponse(page_data={}),
\* which pydantic rejects (PageSEOData has required fields): the handler
\* itself raises and the exception leaves analyze_batch.
Propagate ==
    /\ response' = <<Unhandled>>
    /\ ep' = "done"

\* the html handed to analyzer.analyze: request.html or the text fetched
HtmlContent ==
    IF request.has_html THEN "<html>"
    ELSE IF fetched # <<>> /\ fetched[1].kind = "text" THEN fetched[1].body
    ELSE ""

\* _update_task_status, called under "if task_id:"; tables tasks (analyzer)
\* and seo_tasks (synthesizer)
WriteStatus(writes, table, status) ==
    IF request.task_id # None THEN Append(writes, <<table, status>>)
    ELSE writes

\* neither url nor html: HTTPException 422
SingleRejectEmpty ==
    /\ ep = "enter"
    /\ request.kind = "single"
    /\ ~request.has_url /\ ~request.has_html
    /\ response' = <<Http(422, "Either 'url' or 'html' must be provided", <<>>)>>
    /\ ep' = "done"
    /\ UNCHANGED <<recommender_vars, scorer_vars, page_vars, agent_vars,
                   request, redis, fetch_vars,
                   task_writes, batch_idx, results>>

\* the cache lookup raises: connect() fails and nothing in analyze_page
\* catches it
SingleCacheLookupRaises ==
    /\ ep = "enter"
    /\ request.kind = "single"
    /\ request.has_url \/ request.has_html
    /\ ~CacheLookupReturns
    /\ Propagate
    /\ UNCHANGED <<recommender_vars, scorer_vars, page_vars, agent_vars,
                   request, redis, fetch_vars,
                   task_writes, batch_idx, results>>

\* html_content = request.html is set: nothing is fetched
SingleSkipFetch ==
    /\ ep = "enter"
    /\ request.kind = "single"
    /\ request.has_html
    /\ CacheLookupReturns
    /\ ep' = "analyze"
    /\ UNCHANGED <<recommender_vars, scorer_vars, page_vars, agent_vars,
                   request, redis, fetch_vars,
                   task_writes, batch_idx, results, response>>

\* "if not html_content and request.url": analyzer._fetch_url_content
SingleStartFetch ==
    /\ ep = "enter"
    /\ request.kind = "single"
    /\ request.has_url /\ ~request.has_html
    /\ CacheLookupReturns
    /\ \E s \in Sites : StartFetch(s)
    /\ ep' = "fetch"
    /\ UNCHANGED <<recommender_vars, scorer_vars, page_vars, agent_vars,
                   request, redis, task_writes,
                   batch_idx, results, response>>

BlockedStatuses == {403, 401, 429}

\* the handlers around the fetch in analyze_page: except HTTPStatusError
\* (403 for blocked statuses, else re-raise), except Exception (400)
SingleFetchFailure(exc) ==
    IF exc.kind = "HTTPStatusError"
    THEN IF exc.status \in BlockedStatuses
         THEN Http(403, "Access blocked or rate-limited", <<>>)
         ELSE Unhandled
    ELSE Http(400, "Could not fetch URL", <<>>)

\* the fetch of the single-page endpoint raised
SingleFetchFails ==
    /\ ep = "fetch"
    /\ request.kind = "single"
    /\ fetched # <<>>
    /\ fetched[1].kind # "text"
    /\ response' = <<SingleFetchFailure(fetched[1])>>
    /\ ep' = "done"
    /\ UNCHANGED <<recommender_vars, scorer_vars, page_vars, agent_vars,
                   request, redis, fetch_vars,
                   task_writes, batch_idx, results>>

\* the fetch returned the text of the page
FetchReturns ==
    /\ ep = "fetch"
    /\ fetched # <<>>
    /\ fetched[1].kind = "text"
    /\ ep' = "analyze"
    /\ UNCHANGED <<recommender_vars, scorer_vars, page_vars, agent_vars,
                   request, redis, fetch_vars,
                   task_writes, batch_idx, results, response>>

\* analyzer.analyze: "if url and not html_content" it fetches (again)
AnalyzeRefetch ==
    /\ ep = "analyze"
    /\ request.has_url
    /\ HtmlContent = ""
    /\ StartFetch(site)
    /\ ep' = "refetch"
    /\ UNCHANGED <<recommender_vars, scorer_vars, page_vars, agent_vars,
                   request, redis, task_writes,
                   batch_idx, results, response>>

\* the fetch made by analyzer.analyze has ended: its exception propagates,
\* an empty text raises ValueError, another text is analyzed
AnalyzeRefetched ==
    /\ ep = "refetch"
    /\ fetched # <<>>
    /\ IF fetched[1].kind = "text" /\ fetched[1].body # ""
       THEN ep' = "analyze" /\ UNCHANGED response
       ELSE Propagate
    /\ UNCHANGED <<recommender_vars, scorer_vars, page_vars, agent_vars,
                   request, redis, fetch_vars,
                   task_writes, batch_idx, results>>

\* analyze_page succeeds: processing, then completed
AnalyzePage ==
    /\ ep = "analyze"
    /\ HtmlContent # ""
    /\ request.has_url
    /\ task_writes' = WriteStatus(WriteStatus(task_writes, "tasks", "processing"),
                                  "tasks", "completed")
    /\ ep' = "recommend"
    /\ UNCHANGED <<recommender_vars, scorer_vars, page_vars, agent_vars,
                   request, redis, fetch_vars,
                   batch_idx, results, response>>

\* analyze_page raises (always when url is None: extract_all raises):
\* processing, then failed, and the exception is raised again
AnalyzePageRaises ==
    /\ ep = "analyze"
    /\ HtmlContent # ""
    /\ task_writes' = WriteStatus(WriteStatus(task_writes, "tasks", "processing"),
                                  "tasks", "failed")
    /\ Propagate
    /\ UNCHANGED <<recommender_vars, scorer_vars, page_vars, agent_vars,
                   request, redis, fetch_vars,
                   batch_idx, results>>

\* generate_recommendations as the endpoints see it: it writes processing
\* and a terminal status to seo_tasks and returns a list, never raising
Recommended(writes, terminal) ==
    WriteStatus(WriteStatus(writes, "seo_tasks", "processing"),
                "seo_tasks", terminal)

\* /seo/analyze: the synthesizer has run, the response is returned
SingleRespond ==
    /\ ep = "recommend"
    /\ request.kind = "single"
    /\ \E terminal \in {"completed", "failed"} :
          task_writes' = Recommended(task_writes, terminal)
    /\ response' = <<Http(200, "completed", <<>>)>>
    /\ ep' = "done"
    /\ UNCHANGED <<recommender_vars, scorer_vars, page_vars, agent_vars,
                   request, redis, fetch_vars,
                   batch_idx, results>>

\* one entry of the results list of analyze_batch: the dict appended for a
\* fetch failure (status ""), or the SEOAnalysisResponse of an audit
BatchEntry(url, status, error) == [url |-> url, status |-> status, error |-> error]

\* more than 10 URLs: HTTPException 400
BatchReject ==
    /\ ep = "enter"
    /\ request.kind = "batch"
    /\ request.urls > MaxBatchUrls
    /\ response' = <<Http(400, "maximum of 10 URLs per batch request", <<>>)>>
    /\ ep' = "done"
    /\ UNCHANGED <<recommender_vars, scorer_vars, page_vars, agent_vars,
                   request, redis, fetch_vars,
                   task_writes, batch_idx, results>>

\* the loop of analyze_batch takes the next URL and fetches it
BatchNext ==
    /\ ep \in {"enter", "next"}
    /\ request.kind = "batch"
    /\ request.urls <= MaxBatchUrls
    /\ batch_idx < request.urls
    /\ batch_idx' = batch_idx + 1
    /\ \E s \in Sites : StartFetch(s)
    /\ ep' = "fetch"
    /\ UNCHANGED <<recommender_vars, scorer_vars, page_vars, agent_vars,
                   request, redis, task_writes,
                   results, response>>

\* the fetch of a URL of the batch raised: a blocked status and every
\* exception that is not an HTTPStatusError append an error entry and
\* continue; another error status is raised again into the outer handler
BatchFetchFails ==
    /\ ep = "fetch"
    /\ request.kind = "batch"
    /\ fetched # <<>>
    /\ fetched[1].kind # "text"
    /\ IF fetched[1].kind = "HTTPStatusError"
       THEN IF fetched[1].status \in BlockedStatuses
            THEN /\ results' = Append(results,
                                   BatchEntry(batch_idx, "", "Blocked"))
                 /\ ep' = "next"
                 /\ UNCHANGED response
            ELSE Propagate /\ UNCHANGED results
       ELSE /\ results' = Append(results,
                              BatchEntry(batch_idx, "", fetched[1].message))
            /\ ep' = "next"
            /\ UNCHANGED response
    /\ UNCHANGED <<recommender_vars, scorer_vars, page_vars, agent_vars,
                   request, redis, fetch_vars,
                   task_writes, batch_idx>>

\* the audit of a URL of the batch is appended
BatchAppendResult ==
    /\ ep = "recommend"
    /\ request.kind = "batch"
    /\ \E terminal \in {"completed", "failed"} :
          task_writes' = Recommended(task_writes, terminal)
    /\ results' = Append(results, BatchEntry(batch_idx, "completed", ""))
    /\ ep' = "next"
    /\ UNCHANGED <<recommender_vars, scorer_vars, page_vars, agent_vars,
                   request, redis, fetch_vars,
                   batch_idx, response>>

\* every URL was processed: the summary is computed, the results returned
BatchRespond ==
    /\ ep \in {"enter", "next"}
    /\ request.kind = "batch"
    /\ batch_idx = request.urls
    /\ response' = <<Http(200, "completed", results)>>
    /\ ep' = "done"
    /\ UNCHANGED <<recommender_vars, scorer_vars, page_vars, agent_vars,
                   request, redis, fetch_vars,
                   task_writes, batch_idx, results>>

EndpointNext ==
    \/ FetchNetworkError
    \/ FetchRedirect
    \/ FetchFinal
    \/ FetchTooManyRedirects
    \/ SingleRejectEmpty
    \/ SingleCacheLookupRaises
    \/ SingleSkipFetch
    \/ SingleStartFetch
    \/ SingleFetchFails
    \/ FetchReturns
    \/ AnalyzeRefetch
    \/ AnalyzeRefetched
    \/ AnalyzePage
    \/ AnalyzePageRaises
    \/ SingleRespond
    \/ BatchReject
    \/ BatchNext
    \/ BatchFetchFails
    \/ BatchAppendResult
    \/ BatchRespond

EndpointSpec == EndpointInit /\ [][EndpointNext]_vars

\* ------------------------------------------------------------------------
\* SEOScorer.calculate_seo_score and the aggregation of SEOAnalyzer
\* ------------------------------------------------------------------------
\* bound of the model: the longest issue list aggregated
MaxIssues == 3

\* SEOIssue: type, level, weight (in tenths)
Issue(type, level, weight) == [type |-> type, level |-> level, weight |-> weight]

\* the issues the lists are drawn from: types and weights of the validator
\* and the scorer, every level of SEOIssueLevel
IssueUniverse ==
    {Issue("title_missing", "critical", 100),
     Issue("meta_description_too_short", "warning", 20),
     Issue("missing_h1", "critical", 80),
     Issue("multiple_h1", "warning", 15),
     Issue("missing_alt_text", "warning", 40),
     Issue("thin_content", "warning", 70),
     Issue("content_too_long", "success", 10),
     Issue("no_schema_markup", "warning", 30),
     Issue("missing_canonical", "warning", 40),
     Issue("missing_language", "info", 20),
     Issue("broken_links", "warning", 50),
     Issue("poor_heading_hierarchy", "info", 30)}

IssueLists == UNION {[1..n -> IssueUniverse] : n \in 0..MaxIssues}

\* Python's "fragment in type" for the types of IssueUniverse and the
\* fragments _calculate_category_scores looks for
Contains(type, fragment) ==
    <<type, fragment>> \in
        {<<"meta_description_too_short", "meta">>,
         <<"missing_h1", "h1">>, <<"multiple_h1", "h1">>,
         <<"missing_alt_text", "alt">>,
         <<"thin_content", "content">>, <<"content_too_long", "content">>,
         <<"missing_canonical", "canonical">>,
         <<"broken_links", "link">>,
         <<"poor_heading_hierarchy", "heading">>}

\* variant: an issue of level success earns a bonus
SeverityMultiplierBonus(level) ==
    CASE level = "critical" -> 8
      [] level = "warning" -> 4
      [] level = "info" -> 1
      [] OTHER -> -2

\* the share of the weight an issue adds to the penalty, in tenths: 0.8 for
\* critical, 0.4 for warning, 0.1 for info, nothing for any other level
SeverityMultiplier(level) ==
    CASE level = "critical" -> 8
      [] level = "warning" -> 4
      [] level = "info" -> 1
      [] OTHER -> 0

\* total_weight, in tenths
RECURSIVE TotalWeight(_)
TotalWeight(list) ==
    IF list = <<>> THEN 0 ELSE Head(list).weight + TotalWeight(Tail(list))

\* penalty, in hundredths
RECURSIVE Penalty(_)
Penalty(list) ==
    IF list = <<>> THEN 0
    ELSE Head(list).weight * SeverityMultiplier(Head(list).level)
         + Penalty(Tail(list))

\* calculate_seo_score(issues, max_score), in tenths:
\* round(max_score * (1 - min(penalty / total_weight, 1.0)), 1).
\* The exact quotient is rounded to the nearest tenth.  When it lies halfway
\* between two tenths the binary64 value computed by the code lies on either
\* side of the tie, depending on the rounding of the intermediate sums, and
\* round() gives either neighbour: both are values of the set.
SeoScores(list, max_score) ==
    LET weight == TotalWeight(list)
        capped == IF Penalty(list) > 10 * weight THEN 10 * weight
                  ELSE Penalty(list)
        num == 10 * max_score * (10 * weight - capped)
        den == 10 * weight
        floor == num \div den
        rest == num % den
    IN IF list = <<>> \/ weight = 0 THEN {10 * max_score}
       ELSE IF 2 * rest < den THEN {floor}
       ELSE IF 2 * rest > den THEN {floor + 1}
       ELSE {floor, floor + 1}

\* the issues _calculate_category_scores puts into a category
CategoryIssues(list, category) ==
    SelectSeq(list, LAMBDA issue :
        CASE category = "technical" ->
               Contains(issue.type, "meta") \/ Contains(issue.type, "canonical")
          [] category = "content" -> Contains(issue.type, "content")
          [] category = "images" -> Contains(issue.type, "alt")
          [] category = "headings" ->
               Contains(issue.type, "h1") \/ Contains(issue.type, "heading")
          [] category = "links" -> Contains(issue.type, "link"))

\* variant: schema_present is decided on the type no_schema
CheckFamiliesNoSchema ==
    <<<<"title_present",
        {"title_missing", "title_too_short", "title_too_long"}>>,
      <<"meta_description_present",
        {"meta_description_missing", "meta_description_too_short",
         "meta_description_too_long"}>>,
      <<"h1_present", {"missing_h1", "multiple_h1"}>>,
      <<"images_have_alt", {"missing_alt_text", "empty_alt_text"}>>,
      <<"content_sufficient", {"thin_content", "content_too_long"}>>,
      <<"schema_present", {"no_schema"}>>,
      <<"canonical_present", {"missing_canonical", "mismatched_canonical"}>>,
      <<"language_declared", {"missing_language"}>>>>

\* the checks of _get_passed_checks, in the order they are made, each with
\* the issue types that fail it
CheckFamilies ==
    <<<<"title_present",
        {"title_missing", "title_too_short", "title_too_long"}>>,
      <<"meta_description_present",
        {"meta_description_missing", "meta_description_too_short",
         "meta_description_too_long"}>>,
      <<"h1_present", {"missing_h1", "multiple_h1"}>>,
      <<"images_have_alt", {"missing_alt_text", "empty_alt_text"}>>,
      <<"content_sufficient", {"thin_content", "content_too_long"}>>,
      <<"schema_present", {"no_schema_markup"}>>,
      <<"canonical_present", {"missing_canonical", "mismatched_canonical"}>>,
      <<"language_declared", {"missing_language"}>>>>

\* _get_passed_checks
GetPassedChecks(list) ==
    LET failed_types == {list[i].type : i \in 1..Len(list)}
        passed == SelectSeq(CheckFamilies,
                            LAMBDA check : check[2] \cap failed_types = {})
    IN [i \in 1..Len(passed) |-> passed[i][1]]

ScorerInit ==
    /\ RecommenderIdle
    /\ EndpointIdle
    /\ PageIdle
    /\ KeywordAgentIdle
    /\ issues \in IssueLists
    /\ scores = <<>>

\* analyze_page aggregates the issues: overall_score, category_scores and
\* passed_checks of the SEOAuditResult
Aggregate ==
    /\ scores = <<>>
    /\ \E overall \in SeoScores(issues, 100) :
       \E technical \in SeoScores(CategoryIssues(issues, "technical"), 100) :
       \E content \in SeoScores(CategoryIssues(issues, "content"), 100) :
       \E images \in SeoScores(CategoryIssues(issues, "images"), 100) :
       \E headings \in SeoScores(CategoryIssues(issues, "headings"), 100) :
       \E links \in SeoScores(CategoryIssues(issues, "links"), 100) :
          scores' = <<[overall_score |-> overall,
                       category_scores |->
                           [technical |-> technical, content |-> content,
                            images |-> images, headings |-> headings,
                            links |-> links],
                       passed_checks |-> GetPassedChecks(issues)]>>
    /\ UNCHANGED <<recommender_vars, endpoint_vars, page_vars, agent_vars,
                   issues>>

ScorerNext == Aggregate

ScorerSpec == ScorerInit /\ [][ScorerNext]_vars

\* ------------------------------------------------------------------------
\* HTMLParser.extract_all, SEOAnalyzer._extract_page_data and _validate_page
\* ------------------------------------------------------------------------
\* bound of the model: the most elements a document holds
MaxElements == 3

\* an element of a document: its place in document order, its tag, the
\* attribute that tells its kind, the element it lies in, its attribute
\* value or text, the length of that text and the words it adds to
\* soup.get_text()
Element(id, tag, name, inside, value, chars, words) ==
    [id |-> id, tag |-> tag, name |-> name, inside |-> inside,
     value |-> value, chars |-> chars, words |-> words]

ElementUniverse ==
    {Element(1, "title", "", "head", "a title of 55 characters", 55, 8),
     Element(2, "meta", "description", "head",
             "a description of 155 characters", 155, 0),
     Element(3, "meta", "keywords", "head", "seo, audit", 10, 0),
     Element(4, "script", "application/ld+json", "head", "Article", 0, 0),
     Element(5, "h1", "", "body", "Heading", 7, 1),
     Element(6, "p", "", "body", "400 words of prose.", 2400, 400),
     Element(7, "a", "href", "body", "/about", 5, 1),
     Element(8, "a", "href", "nav", "/home", 4, 1),
     Element(9, "img", "alt", "footer", "logo", 4, 0),
     Element(10, "img", "alt", "body", "", 0, 0),
     Element(11, "div", "itemtype", "body", "https://schema.org/Thing", 0, 0)}

\* the arguments of extract_all: html_content (empty, or a document of at
\* most MaxElements elements) and base_url (None when only markup is given)
Pages ==
    {[elements |-> {}, html_empty |-> TRUE, base_url |-> u] :
        u \in {None, "https://site.example/page"}}
    \cup {[elements |-> es, html_empty |-> FALSE, base_url |-> u] :
             es \in {d \in SUBSET ElementUniverse :
                        Cardinality(d) <= MaxElements},
             u \in {None, "https://site.example/page"}}

\* the order in which a set of strings is iterated: it follows the hashes
\* of the strings, which differ from one interpreter run to the next
\* (PYTHONHASHSEED); hash_order holds the orders of seeds 0 and 1.
\* list(a_set)
ListOfSet(seed, set) ==
    LET hash_order ==
            IF seed = 0
            THEN <<"audit", "seo", "Product", "BreadcrumbList", "FAQPage",
                   "Article">>
            ELSE <<"seo", "audit", "Product", "FAQPage", "Article",
                   "BreadcrumbList">>
    IN SelectSeq(hash_order, LAMBDA w : w \in set)

\* the elements of a set in document order
InDocumentOrder(set) ==
    [i \in 1..Cardinality(set) |->
        CHOOSE e \in set : Cardinality({d \in set : d.id < e.id}) = i - 1]

\* soup.find_all(tag)
FindAll(sp, tag) == InDocumentOrder({e \in sp.elements : e.tag = tag})

\* parse_html: an empty soup for empty html_content; "return soup" stands
\* under "if base_url:", so without a base_url the function ends without a
\* return statement and gives None.  A soup is a record: none tells
\* whether it is None, elements holds the elements of the document.
ParseHtml(pg) ==
    IF pg.html_empty THEN [none |-> FALSE, elements |-> {}]
    ELSE IF pg.base_url # None THEN [none |-> FALSE, elements |-> pg.elements]
    ELSE [none |-> TRUE, elements |-> {}]

\* extract_title: the title element, else (no og:title is modelled) the
\* first h1, else ""
ExtractTitle(sp) ==
    IF sp.none THEN [value |-> "", chars |-> 0]
    ELSE IF FindAll(sp, "title") # <<>>
         THEN [value |-> FindAll(sp, "title")[1].value,
               chars |-> FindAll(sp, "title")[1].chars]
    ELSE IF FindAll(sp, "h1") # <<>>
         THEN [value |-> FindAll(sp, "h1")[1].value,
               chars |-> FindAll(sp, "h1")[1].chars]
    ELSE [value |-> "", chars |-> 0]

\* extract_meta_tags: name -> content
ExtractMetaTags(sp) ==
    LET metas == FindAll(sp, "meta")
    IN [i \in 1..Len(metas) |->
           [name |-> metas[i].name,
            content |-> [value |-> metas[i].value, chars |-> metas[i].chars]]]

\* what extract_content_text removes from the soup it is given:
\* "for elem in soup(['script', 'style', 'nav', 'footer', 'header']):
\* elem.decompose()" acts on the shared soup, not on a copy
Decompose(sp) ==
    [none |-> FALSE,
     elements |-> {e \in sp.elements :
                     /\ e.tag \notin {"script", "style"}
                     /\ e.inside \notin {"nav", "footer", "header"}}]

RECURSIVE WordsOf(_)
WordsOf(elements) ==
    IF elements = {} THEN 0
    ELSE LET e == CHOOSE x \in elements : TRUE
         IN e.words + WordsOf(elements \ {e})

\* extract_links and extract_images give nothing without a soup or a
\* base_url; every link of the model is internal, every image has a src
ExtractLinks(sp, base_url) ==
    IF sp.none \/ base_url = None THEN <<>>
    ELSE LET anchors == FindAll(sp, "a")
         IN [i \in 1..Len(anchors) |-> [url |-> anchors[i].value]]

ExtractImages(sp, base_url) ==
    IF sp.none \/ base_url = None THEN <<>>
    ELSE LET imgs == FindAll(sp, "img")
         IN [i \in 1..Len(imgs) |-> [alt |-> imgs[i].value]]

\* extract_schema_markup: the JSON-LD script blocks, then the microdata
ExtractSchemaMarkup(sp) ==
    LET scripts == SelectSeq(FindAll(sp, "script"),
                             LAMBDA e : e.name = "application/ld+json")
        items == InDocumentOrder({e \in sp.elements : e.name = "itemtype"})
    IN [i \in 1..Len(scripts) |->
           [type |-> "json-ld", has_data |-> TRUE, data |-> scripts[i].value]]
       \o [i \in 1..Len(items) |->
              [type |-> "microdata", has_data |-> FALSE, data |-> ""]]

\* extract_keywords: "return list(set(keywords))"
ExtractKeywords(sp, seed) ==
    LET metas == SelectSeq(FindAll(sp, "meta"), LAMBDA e : e.name = "keywords")
        \* meta["content"].split(","), each keyword stripped
        keywords == IF metas # <<>> /\ metas[1].value = "seo, audit"
                    THEN <<"seo", "audit">> ELSE <<>>
    IN ListOfSet(seed, {keywords[i] : i \in 1..Len(keywords)})

\* the fields of the dictionary extract_all returns, at their defaults
NoFields ==
    [title |-> [value |-> "", chars |-> 0], meta_tags |-> <<>>, word_count |-> 0,
     has_sentences |-> FALSE, image_count |-> 0, h1 |-> <<>>, links |-> <<>>,
     images |-> <<>>, schema_markup |-> <<>>, keywords |-> <<>>]

PageInit ==
    /\ RecommenderIdle
    /\ EndpointIdle
    /\ ScorerIdle
    /\ KeywordAgentIdle
    /\ page \in Pages
    /\ hash_seed \in {0, 1}
    /\ soup = [none |-> TRUE, elements |-> {}]
    /\ xp = "parse"
    /\ extracted = NoFields
    /\ page_issues = <<>>
    /\ first_run = <<>>

\* extract_all: soup = parse_html(html_content, base_url) and the basic
\* metadata (title, meta tags; language, canonical, hreflang and social
\* tags are in no document of the model)
ExtractMetadata ==
    /\ xp = "parse"
    /\ soup' = ParseHtml(page)
    /\ extracted' = [extracted EXCEPT !.title = ExtractTitle(soup'),
                                      !.meta_tags = ExtractMetaTags(soup')]
    /\ xp' = "content"
    /\ UNCHANGED <<recommender_vars, endpoint_vars, scorer_vars, agent_vars,
                   page, hash_seed, page_issues, first_run>>

\* extract_all: content_text = extract_content_text(soup) and the content
\* metrics, with image_count = len(soup.find_all("img"))
ExtractContent ==
    /\ xp = "content"
    /\ ~soup.none
    /\ soup' = Decompose(soup)
    /\ extracted' =
          [extracted EXCEPT
              !.word_count = WordsOf(soup'.elements),
              !.has_sentences = \E e \in soup'.elements : e.tag = "p",
              !.image_count = Len(FindAll(soup', "img"))]
    /\ xp' = "structure"
    /\ UNCHANGED <<recommender_vars, endpoint_vars, scorer_vars, agent_vars,
                   page, hash_seed, page_issues, first_run>>

\* extract_all without a soup: extract_content_text(None) gives {} and
\* soup.find_all raises AttributeError, which nothing in extract_all catches
ExtractContentRaises ==
    /\ xp = "content"
    /\ soup.none
    /\ xp' = "raised"
    /\ UNCHANGED <<recommender_vars, endpoint_vars, scorer_vars, agent_vars,
                   page, hash_seed, soup, extracted, page_issues,
                   first_run>>

\* extract_all: the structural elements, from the soup as the content step
\* left it, and the returned dictionary
ExtractStructure ==
    /\ xp = "structure"
    /\ extracted' =
          [extracted EXCEPT
              !.h1 = [i \in 1..Len(FindAll(soup, "h1")) |->
                         FindAll(soup, "h1")[i].value],
              !.links = ExtractLinks(soup, page.base_url),
              !.images = ExtractImages(soup, page.base_url),
              !.schema_markup = ExtractSchemaMarkup(soup),
              !.keywords = ExtractKeywords(soup, hash_seed)]
    /\ xp' = "extracted"
    /\ UNCHANGED <<recommender_vars, endpoint_vars, scorer_vars, agent_vars,
                   page, hash_seed, soup, page_issues, first_run>>

\* an SEOIssue of the validator or the scorer: weight in tenths, detail
\* the part of the message that tells two issues of one type apart
PageIssue(type, level, weight, detail) ==
    [type |-> type, level |-> level, weight |-> weight, detail |-> detail]

\* SEOValidator.validate_meta_tag_length
ValidateMetaTagLength(content, tag_type, min_len, max_len) ==
    IF content.value = ""
    THEN <<PageIssue(tag_type \o "_missing",
                     IF tag_type = "title" THEN "critical" ELSE "warning",
                     IF tag_type = "title" THEN 100 ELSE 80, "")>>
    ELSE IF content.chars < min_len
    THEN <<PageIssue(tag_type \o "_too_short", "warning",
                     IF tag_type = "title" THEN 30 ELSE 20, "")>>
    ELSE IF content.chars > max_len
    THEN <<PageIssue(tag_type \o "_too_long", "warning",
                     IF tag_type = "title" THEN 20 ELSE 15, "")>>
    ELSE <<>>

\* validate_all: meta_description = next((tag.content for tag in meta_tags
\* if tag.name == "description"), "")
MetaDescription(fields) ==
    LET tags == SelectSeq(fields.meta_tags, LAMBDA t : t.name = "description")
    IN IF tags = <<>> THEN [value |-> "", chars |-> 0] ELSE tags[1].content

\* SEOValidator.validate_all on the page data of the fields.  The page
\* data holds the schema blocks _extract_page_data keeps: SchemaMarkup
\* requires data, which a microdata entry lacks ("Skipping bad schema").  The url is
\* well-formed, no heading is longer than 70 characters, and no document
\* of the model has a canonical link, a language or a viewport.
ValidateAll(fields) ==
    ValidateMetaTagLength(fields.title, "title", 50, 60)
    \o (IF MetaDescription(fields).value # ""
        THEN ValidateMetaTagLength(MetaDescription(fields),
                                   "meta_description", 150, 160)
        ELSE <<>>)
    \o (IF Len(fields.h1) = 0
        THEN <<PageIssue("missing_h1", "critical", 80, "")>>
        ELSE IF Len(fields.h1) > 1
        THEN <<PageIssue("multiple_h1", "warning", 60, "")>>
        ELSE <<>>)
    \o [i \in 1..Len(SelectSeq(fields.images, LAMBDA img : img.alt = "")) |->
           PageIssue("missing_alt_text", "warning", 40, "")]
    \o (IF Len(fields.links) < 5
        THEN <<PageIssue("few_internal_links", "info", 20, "")>>
        ELSE <<>>)
    \o (IF SelectSeq(fields.schema_markup, LAMBDA entry : entry.has_data) = <<>>
        THEN <<PageIssue("no_schema_markup", "info", 30, "")>>
        ELSE <<>>)
    \o (IF fields.word_count < 300
        THEN <<PageIssue("thin_content", "warning", 70, "")>>
        ELSE IF fields.word_count > 2500
        THEN <<PageIssue("content_too_long", "info", 10, "")>>
        ELSE <<>>)
    \o <<PageIssue("missing_canonical", "warning", 40, ""),
         PageIssue("missing_language", "info", 20, ""),
         PageIssue("missing_viewport", "critical", 80, "")>>

\* SEOScorer.analyze_schema: "for t in missing_types" iterates a set
AnalyzeSchema(schema_data, seed) ==
    IF schema_data = <<>>
    THEN <<PageIssue("no_schema", "info", 30, "")>>
    ELSE LET found == {schema_data[i].data : i \in 1..Len(schema_data)}
             recommended_types ==
                 {"Article", "Product", "FAQPage", "BreadcrumbList"}
             missing == ListOfSet(seed, recommended_types \ found)
         IN [i \in 1..Len(missing) |->
                PageIssue("missing_schema_type", "info", 20, missing[i])]

\* SEOScorer.analyze_all on the page data of the fields.  The texts of the
\* model are not keyword-stuffed; a text without a sentence has readability
\* 0, the prose of the model is readable; the headings of the model are of
\* one level; page data has no hreflang tags and no tables.
AnalyzeAll(fields, seed) ==
    ValidateMetaTagLength(fields.title, "title", 50, 60)
    \o (IF Len(fields.images) = 0 THEN <<>>
        ELSE (IF 10 * Len(SelectSeq(fields.images, LAMBDA img : img.alt # ""))
                    < 8 * Len(fields.images)
              THEN <<PageIssue("low_alt_text_coverage", "warning", 40, "")>>
              ELSE <<>>)
             \o (IF \E i \in 1..Len(fields.images) : fields.images[i].alt = ""
                 THEN <<PageIssue("empty_alt_text", "info", 20, "")>>
                 ELSE <<>>))
    \o (IF fields.word_count < 300
        THEN <<PageIssue("thin_content", "warning", 70, "")>>
        ELSE IF fields.word_count > 2500
        THEN <<PageIssue("content_too_long", "info", 10, "")>>
        ELSE <<>>)
    \o (IF ~fields.has_sentences
        THEN <<PageIssue("low_readability", "info", 30, "")>>
        ELSE <<>>)
    \o (IF Len(fields.links) > 0 /\ Len(fields.links) < 5
        THEN <<PageIssue("few_internal_links", "info", 20, "")>>
        ELSE <<>>)
    \o AnalyzeSchema(SelectSeq(fields.schema_markup,
                                LAMBDA entry : entry.has_data), seed)
    \o <<PageIssue("missing_hreflang", "info", 20, "")>>
    \o (IF Len(fields.images) < 1
        THEN <<PageIssue("low_media", "info", 15, "")>>
        ELSE <<>>)
    \o <<PageIssue("no_tables", "info", 10, "")>>

\* _extract_page_data without a url: _generate_url_id(None) raises
ExtractPageDataRaises ==
    /\ xp = "extracted"
    /\ page.base_url = None
    /\ xp' = "raised"
    /\ UNCHANGED <<recommender_vars, endpoint_vars, scorer_vars, agent_vars,
                   page, hash_seed, soup, extracted, page_issues,
                   first_run>>

\* _validate_page: the issues of validate_all followed by the issues of
\* analyze_all; analyze_page then derives passed_checks from the merged list
ValidatePage ==
    /\ xp = "extracted"
    /\ page.base_url # None
    /\ page_issues' =
          <<[validator |-> ValidateAll(extracted),
             heuristics |-> AnalyzeAll(extracted, hash_seed),
             passed_checks |->
                 GetPassedChecks(ValidateAll(extracted)
                                 \o AnalyzeAll(extracted, hash_seed))]>>
    /\ xp' = "validated"
    /\ UNCHANGED <<recommender_vars, endpoint_vars, scorer_vars, agent_vars,
                   page, hash_seed, soup, extracted, first_run>>

\* the same markup and base URL are analysed once more, by another run of
\* the program
RunAgain ==
    /\ xp = "validated"
    /\ first_run = <<>>
    /\ first_run' = <<[fields |-> extracted, issues |-> page_issues[1]]>>
    /\ hash_seed' \in {0, 1}
    /\ soup' = [none |-> TRUE, elements |-> {}]
    /\ extracted' = NoFields
    /\ page_issues' = <<>>
    /\ xp' = "parse"
    /\ UNCHANGED <<recommender_vars, endpoint_vars, scorer_vars, agent_vars,
                   page>>

PageNext ==
    \/ ExtractMetadata
    \/ ExtractContent
    \/ ExtractContentRaises
    \/ ExtractStructure
    \/ ExtractPageDataRaises
    \/ ValidatePage
    \/ RunAgain

PageSpec == PageInit /\ [][PageNext]_vars

\* ------------------------------------------------------------------------
\* KeywordAgent.run

MaxKeywords == 2

\* tasks = [_identify_primary_secondary(keywords),
\*          _analyze_search_intent(keywords, content), _fetch_trends(keywords)]
Subtasks ==
    <<"_identify_primary_secondary", "_analyze_search_intent",
      "_fetch_trends">>

KeywordAgentInit ==
    /\ RecommenderIdle
    /\ EndpointIdle
    /\ ScorerIdle
    /\ PageIdle
    /\ agent_input \in
          [keywords :
               {<<>>}
               \cup {list \in UNION {[1..n -> {"seo", "audit"}] :
                                       n \in 1..MaxKeywords} :
                        \A i, j \in 1..Len(list) :
                            i # j => list[i] # list[j]},
           content : {"", "text"}]
    /\ subtask = [i \in 1..Len(Subtasks) |-> "created"]
    /\ completions = {}
    /\ gathered = [i \in 1..Len(Subtasks) |-> "pending"]
    /\ agent_output = <<>>

\* asyncio.gather starts the coroutines in the order of the list.
\* _identify_primary_secondary and _analyze_search_intent without
\* keywords: the default, without a request
SubtaskReturnsDefault ==
    \E i \in 1..2 :
        /\ subtask[i] = "created"
        /\ \A j \in 1..(i - 1) : subtask[j] # "created"
        /\ agent_input.keywords = <<>>
        /\ subtask' = [subtask EXCEPT ![i] = "returned"]
        /\ gathered' = [gathered EXCEPT ![i] = "default"]
        /\ UNCHANGED <<recommender_vars, endpoint_vars, scorer_vars, page_vars,
                       agent_input, completions, agent_output>>

\* _identify_primary_secondary and _analyze_search_intent with keywords:
\* await self.ai_client.generate_structured(prompt=prompt) suspends the
\* coroutine with its request sent
SubtaskRequestsCompletion ==
    \E i \in 1..2 :
        /\ subtask[i] = "created"
        /\ \A j \in 1..(i - 1) : subtask[j] # "created"
        /\ agent_input.keywords # <<>>
        /\ subtask' = [subtask EXCEPT ![i] = "awaiting"]
        /\ completions' = completions \cup {Subtasks[i]}
        /\ UNCHANGED <<recommender_vars, endpoint_vars, scorer_vars, page_vars,
                       agent_input, gathered, agent_output>>

\* _fetch_trends: the pytrends calls block, the coroutine runs to its end
FetchTrends ==
    /\ subtask[3] = "created"
    /\ \A j \in 1..2 : subtask[j] # "created"
    /\ \E reply \in {"data", "empty", "raised"} :
          gathered' =
              [gathered EXCEPT
                  ![3] = IF agent_input.keywords # <<>> /\ reply = "data"
                         THEN "data" ELSE "default"]
    /\ subtask' = [subtask EXCEPT ![3] = "returned"]
    /\ UNCHANGED <<recommender_vars, endpoint_vars, scorer_vars, page_vars,
                       agent_input, completions, agent_output>>

\* a completion request is answered, once the loop has run every started
\* coroutine to its first suspension; anything but a dict gives the default
CompletionReturns ==
    \E i \in 1..2, reply \in {"dict", "list", "raised"} :
        /\ subtask[i] = "awaiting"
        /\ \A j \in 1..Len(Subtasks) : subtask[j] # "created"
        /\ completions' = completions \ {Subtasks[i]}
        /\ subtask' = [subtask EXCEPT ![i] = "returned"]
        /\ gathered' = [gathered EXCEPT
                           ![i] = IF reply = "dict" THEN "dict" ELSE "default"]
        /\ UNCHANGED <<recommender_vars, endpoint_vars, scorer_vars, page_vars,
                       agent_input, agent_output>>

\* await asyncio.gather(*tasks) returns; run returns the AgentResult
GatherReturns ==
    /\ agent_output = <<>>
    /\ \A i \in 1..Len(Subtasks) : subtask[i] = "returned"
    /\ agent_output' =
          <<[keywords |-> agent_input.keywords,
             content_length |-> Len(agent_input.content),
             primary_secondary |-> gathered[1],
             search_intent |-> gathered[2],
             seasonal_trends |-> gathered[3]]>>
    /\ UNCHANGED <<recommender_vars, endpoint_vars, scorer_vars, page_vars,
                       agent_input, subtask, completions, gathered>>

KeywordAgentNext ==
    \/ SubtaskReturnsDefault
    \/ SubtaskRequestsCompletion
    \/ FetchTrends
    \/ CompletionReturns
    \/ GatherReturns

KeywordAgentSpec == KeywordAgentInit /\ [][KeywordAgentNext]_vars

\* ------------------------------------------------------------------------
\* Vocabulary of the properties
\* ------------------------------------------------------------------------
PositionOf(a) == CHOOSE i \in 1..Len(AgentOrder) : AgentOrder[i] = a

\* _run_with_retries has returned for agent a
EnvelopeReturned(a) == PositionOf(a) <= Len(agent_results_list)

\* the value _run_with_retries returned for agent a
ResultOf(a) == agent_results_list[PositionOf(a)]

\* the run-log rows of agent a, in the order they were appended
LogOf(a) == SelectSeq(run_log, LAMBDA row : row.agent_type = a)

\* the call of agent a raised on attempts 1..k-1 and returned on attempt k
SucceedsAt(a, k) ==
    /\ Len(outcomes[a]) >= k
    /\ outcomes[a][k] = "ok"
    /\ \A i \in 1..(k - 1) : outcomes[a][i] = "raise"

\* every call of agent a made so far raised
AllRaised(a) == \A i \in 1..Len(outcomes[a]) : outcomes[a][i] = "raise"

\* the log of agent a holds rows 1..n, the first n-1 failed, the last `last`
LogIs(a, n, last) ==
    /\ Len(LogOf(a)) = n
    /\ \A i \in 1..n :
          /\ LogOf(a)[i].attempt = i
          /\ LogOf(a)[i].status = IF i < n THEN "failed" ELSE last

\* every insert into seo_agent_runs is made and succeeds
LogWritesSucceed == url_id_str # None /\ "seo_agent_runs" \notin outages

\* ------------------------------------------------------------------------
\* C1
\* ------------------------------------------------------------------------
\* C1 as stated: an agent call that raises on attempts 1..k-1 and returns
\* on attempt k is called exactly k times, its result is returned unchanged,
\* and exactly k run-log rows exist for the agent, numbered 1..k, the first
\* k-1 failed and the last success.
C1_AsStated ==
    \A a \in Agents : \A k \in 1..MaxAttempts :
        (EnvelopeReturned(a) /\ SucceedsAt(a, k)) =>
            /\ Len(outcomes[a]) = k
            /\ ResultOf(a) = replies[a][k][1]
            /\ LogIs(a, k, "success")

\* C1 amended: the k calls and the unchanged result hold always; the k
\* run-log rows exist when the page row was persisted (url_id available) and
\* the run-log inserts succeed; without a url_id no row is written at all.
C1_Retry ==
    \A a \in Agents : \A k \in 1..MaxAttempts :
        (EnvelopeReturned(a) /\ SucceedsAt(a, k)) =>
            /\ Len(outcomes[a]) = k
            /\ ResultOf(a) = replies[a][k][1]
            /\ LogWritesSucceed => LogIs(a, k, "success")
            /\ url_id_str = None => LogOf(a) = <<>>

\* an agent succeeded on attempt 3 and its three rows are in the log
C1_Witness ==
    \E a \in Agents :
        /\ EnvelopeReturned(a)
        /\ SucceedsAt(a, MaxAttempts)
        /\ LogIs(a, MaxAttempts, "success")

\* ------------------------------------------------------------------------
\* C2
\* ------------------------------------------------------------------------
\* C2 as stated: an agent call that raises on every attempt is called
\* exactly max_attempts times, max_attempts failed rows are logged, and the
\* wrapper returns the fallback: confidence 0, empty payload.
C2_AsStated ==
    \A a \in Agents :
        (EnvelopeReturned(a) /\ AllRaised(a)) =>
            /\ Len(outcomes[a]) = MaxAttempts
            /\ LogIs(a, MaxAttempts, "failed")
            /\ ResultOf(a).confidence_score = 0
            /\ ResultOf(a).output_data = EmptyOutput(a)

\* C2 amended: the max_attempts calls and the fallback hold always; the
\* max_attempts failed rows exist when the page row was persisted and the
\* run-log inserts succeed; without a url_id no row is written at all.
C2_Exhausted ==
    \A a \in Agents :
        (EnvelopeReturned(a) /\ AllRaised(a)) =>
            /\ Len(outcomes[a]) = MaxAttempts
            /\ ResultOf(a).confidence_score = 0
            /\ ResultOf(a).output_data = EmptyOutput(a)
            /\ ResultOf(a).agent_type = a
            /\ LogWritesSucceed => LogIs(a, MaxAttempts, "failed")
            /\ url_id_str = None => LogOf(a) = <<>>

\* an agent used up its attempts, with three failed rows in the log
C2_Witness ==
    \E a \in Agents :
        /\ EnvelopeReturned(a)
        /\ AllRaised(a)
        /\ LogIs(a, MaxAttempts, "failed")

\* ------------------------------------------------------------------------
\* C3
\* ------------------------------------------------------------------------
\* C3: when the run-log inserts fail, the retry loop behaves as it does when
\* they succeed: no call follows a call that returned, at most max_attempts
\* calls are made, the value returned is the result of the call that
\* returned, and the fallback is returned only after max_attempts raises.
C3_LogFailureHarmless ==
    (url_id_str # None /\ "seo_agent_runs" \in outages) =>
        \A a \in Agents :
            /\ \A i \in 1..(Len(outcomes[a]) - 1) : outcomes[a][i] = "raise"
            /\ a \in in_flight => AllRaised(a)
            /\ Len(outcomes[a]) <= MaxAttempts
            /\ EnvelopeReturned(a) =>
                  IF AllRaised(a)
                  THEN /\ Len(outcomes[a]) = MaxAttempts
                       /\ ResultOf(a) = CreateFallbackResult(a)
                  ELSE ResultOf(a) = replies[a][Len(outcomes[a])][1]

\* the log inserts fail, and an agent returned a result on its second call
C3_Witness ==
    /\ url_id_str # None
    /\ "seo_agent_runs" \in outages
    /\ run_log = <<>>
    /\ \E a \in Agents :
          /\ EnvelopeReturned(a)
          /\ SucceedsAt(a, 2)
          /\ ResultOf(a) = replies[a][2][1]

\* ------------------------------------------------------------------------
\* Vocabulary of the properties about a whole run
\* ------------------------------------------------------------------------
\* agent a was called max_attempts times and raised every time
Exhausted(a) == Len(outcomes[a]) = MaxAttempts /\ AllRaised(a)

\* the dict of agent results handed to the conversion
Results == AgentResultsDict(agent_results_list)

\* generate_recommendations has returned for an audit with page data
ReturnedForPage == pc = "done" /\ audit.has_page_data

\* _convert_to_recommendations and _prioritize_recommendations have returned
Converted ==
    \/ pc = "store"
    \/ ReturnedForPage /\ ~ConversionRaises(Results, audit)

LastStatus == status_writes[Len(status_writes)]

RecKey(rec) == <<rec.type, rec.suggested>>

\* the recommendations derived from the result of agent a alone
RecsOf(a) ==
    CASE a = "keyword" -> CreateKeywordRecommendations(Results[a], audit)
      [] a = "semantic" -> CreateSemanticRecommendations(Results[a], audit)
      [] a = "schema" -> CreateSchemaRecommendations(Results[a], audit)
      [] a = "performance" -> CreatePerformanceRecommendations(Results[a], audit)
      [] a = "competitor" -> CreateCompetitorRecommendations(Results[a], audit)

\* converting the result of agent a raises
OwnConversionRaises(a) ==
    IF a = "schema" THEN SchemaConversionRaises(Results[a])
    ELSE \E i \in 1..Len(RecsOf(a)) : ConstructorRaises(RecsOf(a)[i])

\* the combined per-agent output, in conversion order
CombinedOutput ==
    RecsOf("keyword") \o RecsOf("semantic") \o RecsOf("schema")
    \o RecsOf("performance") \o RecsOf("competitor")

\* what _run_with_retries returns for agent a when the agent gives the same
\* replies and no write fails: its first reply, the fallback if it gave none
ExpectedResult(a) ==
    LET answered == {i \in 1..Len(replies[a]) : replies[a][i] # <<>>}
    IN IF answered = {} THEN CreateFallbackResult(a)
       ELSE replies[a][CHOOSE i \in answered : \A j \in answered : i <= j][1]

\* what generate_recommendations returns from those results
ExpectedReturn ==
    LET expected == [a \in Agents |-> ExpectedResult(a)]
    IN IF ConversionRaises(expected, audit) THEN <<>>
       ELSE PrioritizeRecommendations(ConvertToRecommendations(expected, audit))

\* one store row per entry of list, tagged with the page id and the task id
StoredRows(list) ==
    [i \in 1..Len(list) |->
        [rec |-> list[i], url_id |-> "page-1", task_id |-> task_id]]

\* the cache holding the whole list under recommendations:<task id, else
\* page id> with an expiry of 24 hours
CachedList(list) ==
    {[key |-> <<"recommendations",
                IF task_id # None THEN task_id ELSE "page-1">>,
      ttl |-> 24 * 60 * 60,
      value |-> <<"json.dumps", list>>]}

C5_AsStated ==
    ReturnedForPage => returned = <<ExpectedReturn>>

\* ------------------------------------------------------------------------
\* C6
\* ------------------------------------------------------------------------
\* C6 as stated: when converting the output of one agent raises, the
\* recommendations derived from the outputs of the agents whose conversion
\* does not raise are still returned, and the last task status is not failed.
C6_AsStated ==
    (ReturnedForPage /\ \E a \in Agents : OwnConversionRaises(a)) =>
        /\ \A b \in Agents :
              ~OwnConversionRaises(b) =>
                  \A i \in 1..Len(RecsOf(b)) :
                      \E j \in 1..Len(returned[1]) :
                          RecKey(returned[1][j]) = RecKey(RecsOf(b)[i])
        /\ task_id # None => LastStatus # "failed"

\* ------------------------------------------------------------------------
\* C7
\* ------------------------------------------------------------------------
\* C7: when every agent uses up its attempts and yields the fallback, the
\* conversion does not raise, generate_recommendations returns the empty
\* list, and the last task status written is completed.
C7_AllFallback ==
    (\A a \in Agents : Exhausted(a)) =>
        /\ pc = "convert" => ~ConversionRaises(Results, audit)
        /\ pc = "done" =>
              /\ returned = <<(<<>>)>>
              /\ task_id # None => LastStatus = "completed"

\* every agent raised three times and the run of a task has returned
C7_Witness ==
    /\ pc = "done"
    /\ \A a \in Agents : Exhausted(a) /\ ResultOf(a) = CreateFallbackResult(a)
    /\ task_id # None
    /\ returned = <<(<<>>)>>
    /\ LastStatus = "completed"

\* ------------------------------------------------------------------------
\* C8
\* ------------------------------------------------------------------------
\* C8 as stated: whenever generate_recommendations returns a list for a
\* page, the store holds one row per returned recommendation, tagged with
\* the page id and the task id, and the cache holds the complete returned
\* list under recommendations:<task id, else page id>, expiring in 24 hours.
C8_AsStated ==
    ReturnedForPage =>
        /\ store = StoredRows(returned[1])
        /\ cache = CachedList(returned[1])

\* C8 amended: the rows and the cache entry exist when the run completes
\* normally and the page upsert, the store insert and the cache write
\* succeed.  Nothing is stored or cached when the conversion raised ([] is
\* returned), when the page upsert failed, or when the insert of a non-empty
\* list failed; when only the cache write failed the rows are stored and no
\* cache entry exists.
C8_Stored ==
    ReturnedForPage =>
        LET list == returned[1]
            nothing_written ==
                \/ ConversionRaises(Results, audit)
                \/ "page_seo_data" \in outages
                \/ list # <<>> /\ "ai_recommendations" \in outages
        IN IF nothing_written
           THEN store = <<>> /\ cache = {}
           ELSE /\ store = StoredRows(list)
                /\ cache = IF "cache" \in outages THEN {} ELSE CachedList(list)

\* a run of a task without failing writes returned several recommendations,
\* all stored and cached
C8_Witness ==
    /\ ReturnedForPage
    /\ outages = {}
    /\ task_id # None
    /\ Len(returned[1]) >= 2
    /\ store = StoredRows(returned[1])
    /\ cache = CachedList(returned[1])

\* ------------------------------------------------------------------------
\* C9
\* ------------------------------------------------------------------------
\* C9: the list _convert_to_recommendations returns has no two entries with
\* the same (type, suggested) pair; it consists of the first occurrences of
\* the pairs of the combined output (keyword, semantic, schema, performance,
\* competitor), each with its own metadata, in their original order.
C9_FirstWins ==
    Converted =>
        LET all == CombinedOutput
            firsts == {k \in 1..Len(all) :
                          \A j \in 1..(k - 1) : RecKey(all[j]) # RecKey(all[k])}
        IN /\ \A i, j \in 1..Len(recommendations) :
                 i # j => RecKey(recommendations[i]) # RecKey(recommendations[j])
           /\ Len(recommendations) = Cardinality(firsts)
           /\ \A k \in firsts :
                 recommendations[Cardinality({j \in firsts : j <= k})] = all[k]

\* two different entries of the combined output share a pair, and the first
\* of them is in the returned list
C9_Witness ==
    /\ Converted
    /\ Len(recommendations) < Len(CombinedOutput)
    /\ \E i, j \in 1..Len(CombinedOutput) :
          /\ i < j
          /\ RecKey(CombinedOutput[i]) = RecKey(CombinedOutput[j])
          /\ CombinedOutput[i] # CombinedOutput[j]
          /\ \E n \in 1..Len(recommendations) :
                recommendations[n] = CombinedOutput[i]

\* ------------------------------------------------------------------------
\* C10
\* ------------------------------------------------------------------------
\* C10 as stated: _prioritize_recommendations returns a permutation of its
\* input, ordered by non-increasing priority impact*100 - weight*10 with
\* weight low=1, medium=2, high=3, otherwise 2, and entries of equal
\* priority keep the relative order they had in the input.
C10_AsStated ==
    Converted =>
        LET input == recommendations
            output == prioritized
            Weight(c) == CASE c = "low" -> 1 [] c = "medium" -> 2
                           [] c = "high" -> 3 [] OTHER -> 2
            Priority(rec) ==
                rec.impact_score - Weight(rec.implementation_complexity) * 10
            Where(rec) == CHOOSE n \in 1..Len(output) : output[n] = rec
        IN /\ Len(output) = Len(input)
           /\ \A i \in 1..Len(input) :
                 Cardinality({n \in 1..Len(output) : output[n] = input[i]})
                     = Cardinality({n \in 1..Len(input) : input[n] = input[i]})
           /\ \A i, j \in 1..Len(output) :
                 i < j => Priority(output[i]) >= Priority(output[j])
           /\ \A i, j \in 1..Len(input) :
                 (i < j /\ Priority(input[i]) = Priority(input[j])) =>
                     Where(input[i]) < Where(input[j])

\* ------------------------------------------------------------------------
\* C11
\* ------------------------------------------------------------------------
\* the arguments of the sleeps made by the retry wrapper of agent a, in order
SleepsOf(a) ==
    LET own == SelectSeq(sleeps, LAMBDA sl : sl[1] = a)
    IN [i \in 1..Len(own) |-> own[i][2]]

\* C11: the wrapper sleeps 2^a seconds after failed attempt a when a is not
\* the last attempt (2 s, then 4 s), and at no other time: the sleeps of an
\* agent are 2^1 .. 2^n where n counts its failed attempts before the third;
\* a successful attempt and the final failed attempt add none.
C11_Backoff ==
    \A a \in Agents :
        LET slept == {i \in 1..Len(outcomes[a]) :
                         outcomes[a][i] = "raise" /\ i < 3}
        IN /\ Len(SleepsOf(a)) = Cardinality(slept)
           /\ \A i \in 1..Len(SleepsOf(a)) :
                 /\ i \in slept
                 /\ SleepsOf(a)[i] = 2 ^ i

\* an agent failed three times and slept 2 s and 4 s; another succeeded at
\* once and did not sleep
C11_Witness ==
    \E a, b \in Agents :
        /\ EnvelopeReturned(a)
        /\ Exhausted(a)
        /\ SleepsOf(a) = <<2, 4>>
        /\ EnvelopeReturned(b)
        /\ SucceedsAt(b, 1)
        /\ SleepsOf(b) = <<>>

\* ------------------------------------------------------------------------
\* C12
\* ------------------------------------------------------------------------
\* C12 as stated: the fallback returned when the attempts are used up has
\* its error set, and so differs from every result an agent can return,
\* a successful result with an empty payload included.
C12_AsStated ==
    \A a \in Agents :
        (EnvelopeReturned(a) /\ Exhausted(a)) =>
            /\ "error" \in DOMAIN ResultOf(a)
            /\ \A reply \in Replies(a) : reply # ResultOf(a)

\* ------------------------------------------------------------------------
\* Vocabulary of the properties about the fetch and the endpoints
\* ------------------------------------------------------------------------
\* the call of _fetch_url_content has ended
FetchEnded == fetched # <<>>

\* the chain of the site ends in a redirect to a URL of the chain
SiteRevisits ==
    /\ site.ending.status \in {301, 302, 303, 307, 308}
    /\ site.ending.location # NoUrl

\* /seo/analyze has answered a request that named a url or carried html
SingleDone ==
    /\ ep = "done"
    /\ request.kind = "single"
    /\ request.has_url \/ request.has_html

\* the fetch made by /seo/analyze failed
SingleFetchFailed ==
    /\ SingleDone
    /\ ~request.has_html
    /\ FetchEnded
    /\ fetched[1].kind # "text"

\* ------------------------------------------------------------------------
\* C13
\* ------------------------------------------------------------------------
\* C13: when the redirects lead to a URL already visited in the chain (a
\* URL redirecting to itself included) and that hop is within the bound of
\* 10 hops, _fetch_url_content raises the redirect-loop error: it neither
\* raises too-many-redirects nor returns a body.  It raises on the request
\* that answers with the revisit, for a URL redirecting to itself on the
\* second request to that URL.
C13_LoopDetected ==
    (FetchEnded /\ SiteRevisits /\ site.hops + 1 <= 10) =>
        /\ fetched[1].kind = "HTTPError"
        /\ fetched[1].message = "Redirect loop detected"
        /\ requests = IF site.ending.location = site.hops
                      THEN site.hops + 2 ELSE site.hops + 1

\* after 9 hops a URL redirects to itself: hop 10 is the revisit, and the
\* loop error is raised on the 11th request
C13_Witness ==
    /\ FetchEnded
    /\ site.hops = 9
    /\ SiteRevisits
    /\ site.ending.location = 9
    /\ fetched[1].message = "Redirect loop detected"
    /\ requests = 11

\* ------------------------------------------------------------------------
\* C14
\* ------------------------------------------------------------------------
\* C14: for a chain of k hops, 0 <= k <= 10, through distinct URLs that ends
\* in a 2xx response, _fetch_url_content returns the body of the final URL
\* after exactly k + 1 requests.
C14_ChainFollowed ==
    (FetchEnded /\ site.hops \in 0..10 /\ site.ending.status \in 200..299) =>
        /\ fetched[1].kind = "text"
        /\ fetched[1].body = site.ending.body
        /\ requests = site.hops + 1

\* a chain of 10 hops was followed and the body returned on request 11
C14_Witness ==
    /\ FetchEnded
    /\ site.hops = 10
    /\ fetched[1].kind = "text"
    /\ fetched[1].body = "<html>"
    /\ requests = 11

\* ------------------------------------------------------------------------
\* C15
\* ------------------------------------------------------------------------
\* C15 as stated: for every analysis request with a task id, the first
\* status written is processing and a terminal status (completed or failed)
\* is written after it before the request ends, whether the audit succeeds,
\* the analysis raises or the fetch fails.
C15_AsStated ==
    (SingleDone /\ request.task_id # None) =>
        /\ task_writes # <<>>
        /\ task_writes[1][2] = "processing"
        /\ \E j \in 2..Len(task_writes) :
              task_writes[j][2] \in {"completed", "failed"}

\* ------------------------------------------------------------------------
\* C16
\* ------------------------------------------------------------------------
\* C16 as stated: in /seo/analyze a fetch that ends in status 401, 403 or
\* 429 is answered with the blocked client error (403), and every other
\* fetch failure (network error, redirect loop, too many redirects, redirect
\* without Location, any other error status) with the could-not-fetch
\* client error (400); none is answered with a server error.
C16_AsStated ==
    SingleFetchFailed =>
        LET blocked == /\ fetched[1].kind = "HTTPStatusError"
                       /\ fetched[1].status \in {401, 403, 429}
        IN /\ response[1].code \in 400..499
           /\ response[1].code = IF blocked THEN 403 ELSE 400

\* ------------------------------------------------------------------------
\* C17
\* ------------------------------------------------------------------------
\* C17 as stated: for every batch of at most 10 URLs the batch endpoint
\* returns a results list with one entry per submitted URL in submission
\* order, whatever fails for single URLs.
C17_AsStated ==
    (ep = "done" /\ request.kind = "batch" /\ request.urls <= 10) =>
        /\ response[1].code = 200
        /\ Len(response[1].results) = request.urls
        /\ \A i \in 1..Len(response[1].results) :
              response[1].results[i].url = i

\* the issue list aggregated, without its last issue
Before == SubSeq(issues, 1, Len(issues) - 1)

\* the last issue of the list is one the penalty counts
LastCounts ==
    /\ issues # <<>>
    /\ issues[Len(issues)].weight > 0
    /\ issues[Len(issues)].level \in {"critical", "warning", "info"}

\* C18, as stated: for every issue list L and every issue i of positive
\* weight and level critical, warning or info, the score of L with i added
\* is at most the score of L.  The penalty is divided by the total weight,
\* so an issue milder than the average of L raises the score.
C18_AsStated ==
    (scores # <<>> /\ LastCounts) =>
        \E before \in SeoScores(Before, 100) :
        \E after \in SeoScores(issues, 100) : after <= before

\* C19: the overall score and each of the five category scores computed for
\* an audit lie in [0, 100], whatever the mix of levels (success included).
C19_Bounds ==
    scores # <<>> =>
        /\ scores[1].overall_score \in 0..1000
        /\ \A c \in {"technical", "content", "images", "headings", "links"} :
              scores[1].category_scores[c] \in 0..1000

\* an aggregated list holding a success issue next to a critical one, with
\* a category score and the overall score strictly inside the range
C19_Witness ==
    /\ scores # <<>>
    /\ \E i, j \in 1..Len(issues) :
          issues[i].level = "success" /\ issues[j].level = "critical"
    /\ scores[1].overall_score \in 1..999
    /\ scores[1].category_scores["headings"] \in 1..999
    /\ scores[1].category_scores["content"] = 1000

\* C20: each of the eight check names is in passed_checks exactly when the
\* list holds no issue of the check's family, and the names appear in the
\* fixed order title_present, meta_description_present, h1_present,
\* images_have_alt, content_sufficient, schema_present, canonical_present,
\* language_declared.
C20_PassedChecks ==
    scores # <<>> =>
        LET passed == scores[1].passed_checks
            types == {issues[i].type : i \in 1..Len(issues)}
            rank == [title_present |-> 1, meta_description_present |-> 2,
                     h1_present |-> 3, images_have_alt |-> 4,
                     content_sufficient |-> 5, schema_present |-> 6,
                     canonical_present |-> 7, language_declared |-> 8]
            In(name) == \E k \in 1..Len(passed) : passed[k] = name
            Absent(family) == types \cap family = {}
        IN /\ In("title_present") <=>
                Absent({"title_missing", "title_too_short", "title_too_long"})
           /\ In("meta_description_present") <=>
                Absent({"meta_description_missing",
                       "meta_description_too_short",
                       "meta_description_too_long"})
           /\ In("h1_present") <=> Absent({"missing_h1", "multiple_h1"})
           /\ In("images_have_alt") <=>
                Absent({"missing_alt_text", "empty_alt_text"})
           /\ In("content_sufficient") <=>
                Absent({"thin_content", "content_too_long"})
           /\ In("schema_present") <=> Absent({"no_schema_markup"})
           /\ In("canonical_present") <=>
                Absent({"missing_canonical", "mismatched_canonical"})
           /\ In("language_declared") <=> Absent({"missing_language"})
           /\ \A k \in 1..Len(passed) : passed[k] \in DOMAIN rank
           /\ \A k, l \in 1..Len(passed) :
                k < l => rank[passed[k]] < rank[passed[l]]

\* a list failing the schema, h1 and language checks: the five others are
\* passed, in order
C20_Witness ==
    /\ scores # <<>>
    /\ {issues[i].type : i \in 1..Len(issues)} =
           {"no_schema_markup", "missing_h1", "missing_language"}
    /\ scores[1].passed_checks =
           <<"title_present", "meta_description_present", "images_have_alt",
             "content_sufficient", "canonical_present">>

\* C21, as stated: with the cache absent or failing, a single-page request
\* is served as with a working cache, where a request that names a url or
\* carries html goes on from the cache lookup to the fetch or the analysis;
\* a cache failure never ends the request.
C21_AsStated ==
    [][(/\ ep = "enter"
        /\ request.kind = "single"
        /\ request.has_url \/ request.has_html
        /\ redis # "connected")
       => ep' \in {"fetch", "analyze"}]_vars

\* C25: _fetch_url_content always ends: every pass of its loop makes one
\* more request or ends the call, at most max_redirects + 1 requests are
\* made, and a chain of more than max_redirects hops through distinct URLs
\* ends with the too-many-redirects error, never with a body.
C25_Terminates ==
    /\ [](/\ requests <= 10 + 1
          /\ (FetchEnded /\ site.hops > 10) =>
                /\ fetched[1].kind = "HTTPError"
                /\ fetched[1].message = "Too many redirects"
                /\ requests = 10 + 1)
    /\ [][Fetching => (requests' = requests + 1 \/ fetched' # <<>>)]_vars

\* a chain of 11 hops through distinct URLs that would end in a page: the
\* call ended with the too-many-redirects error after 11 requests
C25_Witness ==
    /\ FetchEnded
    /\ site.hops = 11
    /\ site.ending.status = 200
    /\ requests = 11
    /\ redirect_count = 11
    /\ fetched[1].message = "Too many redirects"

\* C26, as stated: once completed or failed has been written for the task
\* of a request, no later status write for that task follows in the same
\* request.  The synthesizer writes processing, and a terminal status again,
\* after the orchestrator has marked the task completed.
C26_AsStated ==
    \A i \in 1..Len(task_writes) :
        task_writes[i][2] \in {"completed", "failed"} =>
            i = Len(task_writes)

\* C28, as stated: during one _fetch_url_content call no URL is requested
\* twice.  The loop check leaves out the URL that has just answered, so a
\* URL that redirects to itself is requested a second time.
C28_AsStated ==
    \A i, j \in 1..Len(redirect_chain) :
        i < j => redirect_chain[i][2] # redirect_chain[j][2]

\* an extraction step of the run has produced the structure fields
Extracted == xp \in {"extracted", "validated"}

\* the number of issues of the type in the merged list of the audit
CountOfType(type) ==
    Len(SelectSeq(page_issues[1].validator \o page_issues[1].heuristics,
                  LAMBDA issue : issue.type = type))

\* C22, as stated: extract_all never raises, whatever the markup and the
\* base URL.  Without a base URL parse_html returns nothing for non-empty
\* markup, and counting the images of the missing soup raises.
C22_AsStated ==
    [][xp = "content" => xp' # "raised"]_vars

\* C23, as stated: a second analysis of the same markup and base URL, also
\* by another run of the program, gives the same fields and the same issue
\* list in the same order.  The keyword list is list(set(...)), whose order
\* follows the string hash seed of the run.
C23_AsStated ==
    (xp = "validated" /\ first_run # <<>>) =>
        /\ extracted = first_run[1].fields
        /\ page_issues[1] = first_run[1].issues

\* C24, as stated: a page without a meta description gets a
\* meta_description_missing warning from the validator, and
\* meta_description_present is not among the passed checks.  validate_all
\* validates the description only when it is non-empty.
C24_AsStated ==
    (xp = "validated" /\ MetaDescription(extracted).value = "") =>
        /\ \E i \in 1..Len(page_issues[1].validator) :
              /\ page_issues[1].validator[i].type = "meta_description_missing"
              /\ page_issues[1].validator[i].level = "warning"
        /\ \A i \in 1..Len(page_issues[1].passed_checks) :
              page_issues[1].passed_checks[i] # "meta_description_present"

\* C27, as stated: the steps after the content text see the whole document:
\* every JSON-LD block of the markup is in the schema list, and with a base
\* URL every link and image of the markup, those inside nav, header or
\* footer included, is in the link and image lists.  extract_content_text
\* removes script, style, nav, footer and header from the shared soup.
C27_AsStated ==
    Extracted =>
        \A e \in page.elements :
            /\ (e.tag = "script" /\ e.name = "application/ld+json") =>
                  \E i \in 1..Len(extracted.schema_markup) :
                      /\ extracted.schema_markup[i].type = "json-ld"
                      /\ extracted.schema_markup[i].data = e.value
            /\ (e.tag = "a" /\ page.base_url # None) =>
                  \E i \in 1..Len(extracted.links) :
                      extracted.links[i].url = e.value
            /\ (e.tag = "img" /\ page.base_url # None) =>
                  \E i \in 1..Len(extracted.images) :
                      extracted.images[i].alt = e.value

\* C29, as stated: the merged list of one audit has exactly one
\* title_missing issue for an empty title, exactly one thin_content issue
\* for a page under 300 words and exactly one few_internal_links issue for
\* a page with fewer than 5 internal links.  The validator and the scorer
\* each emit them.
C29_AsStated ==
    xp = "validated" =>
        /\ extracted.title.value = "" => CountOfType("title_missing") = 1
        /\ extracted.word_count < 300 => CountOfType("thin_content") = 1
        /\ Len(extracted.links) < 5 => CountOfType("few_internal_links") = 1

\* C30, as stated: while the keyword agent serves one request, at most one
\* completion request is in flight.  run gathers its coroutines, and two of
\* them await generate_structured.
C30_AsStated ==
    Cardinality(completions) <= 1

TypeOK ==
    /\ pc \in {"idle", "enter", "persist", "agents", "convert", "store", "done"}
    /\ rpc \in {"idle", "loop", "inflight", "ret"}
    /\ attempt \in 0..MaxAttempts
    /\ agent_idx \in 1..(Len(AgentOrder) + 1)
    /\ Len(returned) <= 1

====
